---- MODULE Spec2Model ----
(***************************************************************************)
(* Model of the Listify Agent multi-metric evaluation engine:              *)
(*   backend/evaluations/listify_evaluators.py               (the engine)  *)
(*   backend/evaluations/listify_evaluators_with_tracing.py  (telemetry)   *)
(*   backend/evaluations/run_evaluation.py                   (the runner)  *)
(*   backend/evaluations/llm_judge_evaluators.py    (judge-only evaluators) *)
(*   backend/run_llm_evaluations.py                      (the test runner) *)
(*                                                                         *)
(* In the engine's state machine Python floats are exact rationals [n, d]  *)
(* in lowest terms with d > 0, so that sums, products and threshold        *)
(* comparisons are the mathematical ones.  Where rounding decides a        *)
(* property (bounds on the weighted sum, the order of the validator's      *)
(* additions) the same computations are carried out in binary64.  JSON /   *)
(* Python values are modelled by their kind and payload, because           *)
(* truthiness, isinstance() and float() depend on both.                    *)
(***************************************************************************)
EXTENDS Integers, Sequences, FiniteSets, TLC

VARIABLES
    request,          \* the runner's request: inputs and threshold
    judge,            \* the judge's response to each metric's call, once made
    spanType,         \* the sink's span type, known once a span is started
    pc,               \* per engine: the step evaluate_all is at
    results,          \* per engine: the results mapping built so far
    calls,            \* per engine: the judge calls issued, in order
    error,            \* per engine: the exception that reached the runner
    spans,            \* the tracing engine's spans: times started and ended
    vItems,           \* Structural Validator harness: the input
    vOut,             \* Structural Validator harness: the outcome
    fIn,              \* float arithmetic harness: the operation and its input
    fOut,             \* float arithmetic harness: the float computed
    aIn,              \* judge-only evaluators: the operation and its inputs
    aOut,             \* judge-only evaluators: the outcome
    evaluator,        \* per engine: the evaluator object's configuration
    inst,             \* two independent ListifyEvaluator instances at work
    instCalls,        \* the instances' judge calls, in the order issued
    runner            \* the test runner: its results and where it is

(***************************************************************************)
(* Bounds of the model.                                                    *)
(***************************************************************************)
\* longest item list handed to the Structural Validator harness
MaxItems == 2

(***************************************************************************)
(* Exact rational arithmetic.                                              *)
(***************************************************************************)
Abs(x) == IF x < 0 THEN -x ELSE x

RECURSIVE GCD(_, _)
GCD(a, b) == IF b = 0 THEN a ELSE GCD(b, a % b)

Rat(n, d) == LET g == GCD(Abs(n), d) IN [n |-> n \div g, d |-> d \div g]

RAdd(a, b) == Rat(a.n * b.d + b.n * a.d, a.d * b.d)
RMul(a, b) == Rat(a.n * b.n, a.d * b.d)
RDivInt(a, k) == Rat(a.n, a.d * k)
RGe(a, b) == a.n * b.d >= b.n * a.d
Zero == Rat(0, 1)
One == Rat(1, 1)

(***************************************************************************)
(* Binary floating point, as the interpreter computes: Python's float is   *)
(* IEEE-754 binary64, every operation rounded to nearest, ties to even.    *)
(* A natural number is its sequence of digits in base 2^LimbBits, least    *)
(* significant first and without leading zeros.  A float is m * 2^e with   *)
(* m of exactly Precision binary digits (m = 0 and e = 0 for zero).  The   *)
(* evaluation engine only meets finite, non-negative, normal values.       *)
(***************************************************************************)
\* binary digits in the significand of a float
Precision == 53
\* binary digits in one digit of a natural number
LimbBits == 15
Base == 2 ^ LimbBits

RECURSIVE NatLimbs(_)
NatLimbs(n) == IF n = 0 THEN <<>> ELSE <<n % Base>> \o NatLimbs(n \div Base)

RECURSIVE BinaryDigits(_)
BinaryDigits(n) == IF n = 0 THEN 0 ELSE 1 + BinaryDigits(n \div 2)

RECURSIVE BTrim(_)
BTrim(x) ==
    IF x = <<>> THEN x
    ELSE IF x[Len(x)] = 0 THEN BTrim(SubSeq(x, 1, Len(x) - 1))
    ELSE x

BitLen(x) ==
    IF x = <<>> THEN 0 ELSE LimbBits * (Len(x) - 1) + BinaryDigits(x[Len(x)])

\* binary digit i of x, digit 0 being the least significant
Bit(x, i) ==
    LET limb == i \div LimbBits + 1
    IN  IF limb > Len(x) THEN 0 ELSE (x[limb] \div 2 ^ (i % LimbBits)) % 2

RECURSIVE BAdd(_, _, _)
BAdd(x, y, carry) ==
    IF y = <<>> /\ carry = 0 THEN x
    ELSE IF x = <<>> /\ carry = 0 THEN y
    ELSE LET a == IF x = <<>> THEN 0 ELSE Head(x)
             b == IF y = <<>> THEN 0 ELSE Head(y)
             t == a + b + carry
         IN  <<t % Base>> \o BAdd(IF x = <<>> THEN x ELSE Tail(x),
                                  IF y = <<>> THEN y ELSE Tail(y), t \div Base)

\* x * s + carry for a single digit s
RECURSIVE BMulDigit(_, _, _)
BMulDigit(x, s, carry) ==
    IF x = <<>> THEN NatLimbs(carry)
    ELSE LET t == Head(x) * s + carry
         IN  <<t % Base>> \o BMulDigit(Tail(x), s, t \div Base)

RECURSIVE BMul(_, _)
BMul(x, y) ==
    IF x = <<>> \/ y = <<>> THEN <<>>
    ELSE LET rest == BMul(x, Tail(y))
         IN  BTrim(BAdd(BMulDigit(x, Head(y), 0),
                        IF rest = <<>> THEN rest ELSE <<0>> \o rest, 0))

\* floor(x / k) and x mod k for 0 < k <= Base, by long division over the
\* digits of x, most significant first
RECURSIVE LongDiv(_, _, _, _)
LongDiv(x, k, rem, quot) ==
    IF x = <<>> THEN [q |-> BTrim(quot), r |-> rem]
    ELSE LET t == rem * Base + x[Len(x)]
         IN  LongDiv(SubSeq(x, 1, Len(x) - 1), k, t % k, <<t \div k>> \o quot)

\* x * 2^k
BShl(x, k) ==
    IF x = <<>> THEN x
    ELSE [i \in 1..(k \div LimbBits) |-> 0]
         \o BTrim(BMulDigit(x, 2 ^ (k % LimbBits), 0))

\* floor(x / 2^k)
BShr(x, k) ==
    IF k \div LimbBits >= Len(x) THEN <<>>
    ELSE LongDiv(SubSeq(x, k \div LimbBits + 1, Len(x)), 2 ^ (k % LimbBits), 0, <<>>).q

RECURSIVE BLeFrom(_, _, _)
BLeFrom(x, y, i) ==
    IF i = 0 THEN TRUE
    ELSE IF x[i] # y[i] THEN x[i] < y[i]
    ELSE BLeFrom(x, y, i - 1)

BLe(x, y) == IF Len(x) # Len(y) THEN Len(x) < Len(y) ELSE BLeFrom(x, y, Len(x))

\* m * 2^e for an m of at most Precision + 1 digits of which only the first
\* Precision are significant
DCanon(m, e) ==
    IF m = <<>> THEN [m |-> <<>>, e |-> 0]
    ELSE IF BitLen(m) > Precision
         THEN [m |-> BShr(m, BitLen(m) - Precision), e |-> e + BitLen(m) - Precision]
    ELSE [m |-> BShl(m, Precision - BitLen(m)), e |-> e - (Precision - BitLen(m))]

\* m * 2^e rounded to Precision digits, ties to even
Round(m, e) ==
    IF BitLen(m) <= Precision THEN DCanon(m, e)
    ELSE LET k == BitLen(m) - Precision
             kept == BShr(m, k)
             sticky == \E i \in 0..(k - 2) : Bit(m, i) = 1
             up == Bit(m, k - 1) = 1 /\ (sticky \/ Bit(kept, 0) = 1)
         IN  DCanon(IF up THEN BAdd(kept, <<1>>, 0) ELSE kept, e + k)

Min(a, b) == IF a <= b THEN a ELSE b

\* x + y without rounding
DExactAdd(x, y) ==
    LET e == Min(x.e, y.e)
    IN  IF x.m = <<>> THEN y
        ELSE IF y.m = <<>> THEN x
        ELSE [m |-> BAdd(BShl(x.m, x.e - e), BShl(y.m, y.e - e), 0), e |-> e]

\* float + float
DAdd(x, y) == LET sum == DExactAdd(x, y) IN Round(sum.m, sum.e)

\* float * float
DMul(x, y) == Round(BMul(x.m, y.m), x.e + y.e)

\* float / int for 0 < k < Base: the quotient is taken to more than
\* Precision digits and one more digit records a non-zero remainder, so that
\* rounding sees the exact value
DDivInt(x, k) ==
    LET shift == LimbBits + 1
        d == LongDiv(BShl(x.m, shift), k, 0, <<>>)
        odd == IF d.r = 0 THEN <<>> ELSE <<1>>
    IN  Round(BAdd(BShl(d.q, 1), odd, 0), x.e - shift - 1)

\* x <= y
DLe(x, y) ==
    LET e == Min(x.e, y.e)
    IN  IF x.m = <<>> THEN TRUE
        ELSE IF y.m = <<>> THEN FALSE
        ELSE BLe(BShl(x.m, x.e - e), BShl(y.m, y.e - e))

\* the float a decimal literal n/d denotes: the nearest one
DFloat(r) == DDivInt(DCanon(NatLimbs(r.n), 0), r.d)

(***************************************************************************)
(* Python / JSON values: a kind and a payload.                             *)
(*   absent : the key is not in the mapping                                *)
(*   null   : None                                                         *)
(*   str    : text, payload = the text                                     *)
(*   num    : a number, payload = its decimal text                         *)
(***************************************************************************)
Absent == [k |-> "absent", s |-> ""]
Null == [k |-> "null", s |-> ""]
Str(t) == [k |-> "str", s |-> t]
Num(t) == [k |-> "num", s |-> t]

\* bool(v): None, "" and 0 are falsy
Truthy(v) ==
    \/ v.k = "str" /\ v.s # ""
    \/ v.k = "num" /\ v.s # "0"

IsStr(v) == v.k = "str"

\* str.strip() on the texts of the model
Strip(t) == IF t \in {"", " ", "  "} THEN "" ELSE t

(***************************************************************************)
(* The Category Registry (ListifyEvaluator.valid_categories).              *)
(***************************************************************************)
valid_categories ==
    {"groceries", "tasks", "contacts", "events", "inventory",
     "ideas", "recipes", "shopping", "bills", "other"}

\* ListifyEvaluator.__init__: the configuration an evaluator object holds
ListifyEvaluator(model, threshold) ==
    [model |-> model, threshold |-> threshold,
     valid_categories |-> valid_categories,
     required_fields |-> <<"item_name", "category", "quantity", "notes", "explanation">>]

(***************************************************************************)
(* Items.  A list element is a mapping (dict = TRUE) with the four fields  *)
(* the validator reads, or something that is not a mapping (a number).     *)
(***************************************************************************)
Item(name, cat, qty, notes) ==
    [dict |-> TRUE, item_name |-> name, category |-> cat,
     quantity |-> qty, notes |-> notes]

NotAMapping ==
    [dict |-> FALSE, item_name |-> Absent, category |-> Absent,
     quantity |-> Absent, notes |-> Absent]

\* the value of extracted_items: null, a number, or a list
NullItems == [k |-> "null", list |-> <<>>]
NumItems == [k |-> "num", list |-> <<>>]
ListOf(seq) == [k |-> "list", list |-> seq]

(***************************************************************************)
(* ListifyEvaluator._validate_structure_programmatic                       *)
(***************************************************************************)
\* 'item_name' in item and item['item_name'] and isinstance(.., str)
\*   and item['item_name'].strip()
NameCredit(item) ==
    IF /\ item.item_name.k # "absent"
       /\ Truthy(item.item_name)
       /\ IsStr(item.item_name)
       /\ Strip(item.item_name.s) # ""
    THEN Rat(4, 10) ELSE Zero

\* faulty variant: the category check is entered whenever the key is present
CategoryCounted_KeyPresent(item) == item.category.k # "absent"

\* 'category' in item and item['category']
CategoryCounted(item) ==
    item.category.k # "absent" /\ Truthy(item.category)

\* faulty variant: a registry category earns 0.1 instead of 0.4
CategoryCredit_Tenth(item) ==
    IF /\ CategoryCounted(item)
       /\ IsStr(item.category)
       /\ item.category.s \in valid_categories
    THEN Rat(1, 10) ELSE Zero

\* faulty variant: any category that is present earns the credit
CategoryCredit_AnyCategory(item) ==
    IF CategoryCounted(item) THEN Rat(4, 10) ELSE Zero

\* item['category'] in self.valid_categories
CategoryCredit(item) ==
    IF /\ CategoryCounted(item)
       /\ IsStr(item.category)
       /\ item.category.s \in valid_categories
    THEN Rat(4, 10) ELSE Zero

\* 'f' not in item or item['f'] is None or isinstance(item['f'], str)
OptionalCredit(v) ==
    IF v.k \in {"absent", "null", "str"} THEN Rat(1, 10) ELSE Zero

ItemCredit(item) ==
    RAdd(RAdd(NameCredit(item), CategoryCredit(item)),
         RAdd(OptionalCredit(item.quantity), OptionalCredit(item.notes)))

\* faulty variant: the category check counts whether or not it is entered
ItemChecks_Fixed(item) == 4

ItemChecks(item) == IF CategoryCounted(item) THEN 4 ELSE 3

\* faulty variant: the credit is not divided by the number of checks
ItemScore_NoDivision(item) == ItemCredit(item)

\* item_score / checks
ItemScore(item) == RDivInt(ItemCredit(item), ItemChecks(item))

RECURSIVE TotalScore(_)
TotalScore(seq) ==
    IF seq = <<>> THEN Zero
    ELSE RAdd(ItemScore(Head(seq)), TotalScore(Tail(seq)))

\* the outcome of a call: a value, or an exception that escapes
Returned(v) == [raised |-> FALSE, err |-> "", val |-> v]
Raised(e) == [raised |-> TRUE, err |-> e, val |-> Zero]

\* faulty variant: the "if not items" guard is missing
validate_structure_programmatic_NoGuard(items) ==
    IF items.k # "list" THEN Raised("TypeError")
    ELSE IF items.list = <<>> THEN Raised("ZeroDivisionError")
    ELSE IF \E i \in 1..Len(items.list) : ~items.list[i].dict
         THEN Raised("TypeError")
    ELSE Returned(RDivInt(TotalScore(items.list), Len(items.list)))

validate_structure_programmatic(items) ==
    IF items.k = "null" THEN Returned(Zero)         \* not items
    ELSE IF items.k = "num" THEN Raised("TypeError") \* len(5)
    ELSE IF items.list = <<>> THEN Returned(Zero)
    ELSE IF \E i \in 1..Len(items.list) : ~items.list[i].dict
         THEN Raised("TypeError")                    \* 'item_name' in 5
    ELSE Returned(RDivInt(TotalScore(items.list), Len(items.list)))

(***************************************************************************)
(* The validator's arithmetic in floats, operation by operation:           *)
(*   item_score = 0.0; item_score += 0.4; ...; item_score / checks;        *)
(*   total_score += ...; total_score / len(items)                          *)
(***************************************************************************)
\* item_score after the four rubric checks
FloatItemCredit(item) ==
    LET start == DFloat(Zero)
        name == IF NameCredit(item) = Zero THEN start
                ELSE DAdd(start, DFloat(NameCredit(item)))
        cat == IF CategoryCredit(item) = Zero THEN name
               ELSE DAdd(name, DFloat(CategoryCredit(item)))
        qty == IF OptionalCredit(item.quantity) = Zero THEN cat
               ELSE DAdd(cat, DFloat(OptionalCredit(item.quantity)))
    IN  IF OptionalCredit(item.notes) = Zero THEN qty
        ELSE DAdd(qty, DFloat(OptionalCredit(item.notes)))

\* item_score / checks
FloatItemScore(item) == DDivInt(FloatItemCredit(item), ItemChecks(item))

\* total_score after the loop has added the items of seq to acc, in order
RECURSIVE FloatTotalScore(_, _)
FloatTotalScore(acc, seq) ==
    IF seq = <<>> THEN acc
    ELSE FloatTotalScore(DAdd(acc, FloatItemScore(Head(seq))), Tail(seq))

\* _validate_structure_programmatic on a list of item mappings
validate_structure_programmatic_float(seq) ==
    IF seq = <<>> THEN DFloat(Zero)
    ELSE DDivInt(FloatTotalScore(DFloat(Zero), seq), Len(seq))

(***************************************************************************)
(* Inputs of the Structural Validator harness.                             *)
(***************************************************************************)
NameValues == {Absent, Null, Str(""), Str("  "), Str("Buy milk"), Num("5")}
CategoryValues ==
    {Absent, Null, Str(""), Str("groceries"), Str("other"),
     Str("invalid_category"), Num("5")}
OptionalValues == {Absent, Null, Str("2 gallons"), Num("2")}

AllItems ==
    {Item(a, b, c, d) : a \in NameValues, b \in CategoryValues,
                        c \in OptionalValues, d \in OptionalValues}

\* items that between them take every branch of the rubric
SampleItems ==
    { Item(Str("Buy milk"), Str("groceries"), Str("2 gallons"), Str("2 gallons")),
      Item(Str("Buy milk"), Str("other"), Null, Absent),
      Item(Str("Buy milk"), Str("invalid_category"), Null, Null),
      Item(Str("Buy milk"), Absent, Absent, Absent),
      Item(Absent, Str("groceries"), Absent, Absent),
      Item(Str("  "), Null, Num("2"), Num("2")) }

RECURSIVE SeqsUpTo(_, _)
SeqsUpTo(S, n) ==
    IF n = 0 THEN {<<>>}
    ELSE LET shorter == SeqsUpTo(S, n - 1)
         IN shorter \cup {Append(q, x) : q \in shorter, x \in S}

ValidatorInputs ==
    {NullItems}
    \cup {ListOf(<<i>>) : i \in AllItems}
    \cup {ListOf(q) : q \in SeqsUpTo(SampleItems, MaxItems)}

(***************************************************************************)
(* float(): numbers convert, text converts when it spells a number,        *)
(* None raises TypeError, other text raises ValueError.                    *)
(***************************************************************************)
IsDecimal(t) == t \in {"0", "0.5", "0.8", "0.9", "1", "1.5"}

ParseDecimal(t) ==
    CASE t = "0"   -> Rat(0, 1)
      [] t = "0.5" -> Rat(1, 2)
      [] t = "0.8" -> Rat(8, 10)
      [] t = "0.9" -> Rat(9, 10)
      [] t = "1"   -> Rat(1, 1)
      [] t = "1.5" -> Rat(3, 2)

PyFloat(v) ==
    IF v.k = "num" THEN Returned(ParseDecimal(v.s))
    ELSE IF v.k = "str"
         THEN IF IsDecimal(v.s) THEN Returned(ParseDecimal(v.s))
              ELSE Raised("ValueError")
    ELSE Raised("TypeError")

\* result.get(key, default)
GetOr(v, default) == IF v.k = "absent" THEN default ELSE v

(***************************************************************************)
(* EvaluationResult and the conservative result of the except clauses.     *)
(***************************************************************************)
EvaluationResult(score, passed, confidence, explanation, details) ==
    [score |-> score, passed |-> passed, confidence |-> confidence,
     explanation |-> explanation, details |-> details]

NoDetails == [empty |-> TRUE]

\* except Exception as e: return EvaluationResult(0.0, False, 0.0, ...)
FailureResult(e) ==
    EvaluationResult(Zero, FALSE, Zero, Str("Evaluation failed: " \o e), NoDetails)

(***************************************************************************)
(* The judge.  A call raises, returns text that is not JSON, or returns a  *)
(* JSON object whose fields are each absent or hold a value.               *)
(***************************************************************************)
JudgeRaises == [kind |-> "raise", score |-> Absent, confidence |-> Absent,
                explanation |-> Absent, relevance_score |-> Absent]
JudgeBadJson == [kind |-> "badjson", score |-> Absent, confidence |-> Absent,
                 explanation |-> Absent, relevance_score |-> Absent]
JudgeJson(score, confidence, explanation, relevance) ==
    [kind |-> "json", score |-> score, confidence |-> confidence,
     explanation |-> explanation, relevance_score |-> relevance]

\* self.client.chat.completions.create(...) then json.loads(...)
JudgeCall(resp) ==
    IF resp.kind = "raise" THEN Raised("APIError")
    ELSE IF resp.kind = "badjson" THEN Raised("JSONDecodeError")
    ELSE Returned(Zero)

(***************************************************************************)
(* ListifyEvaluator.evaluate_extraction_accuracy                           *)
(***************************************************************************)
\* len(extracted_items) and input_source[:500], both before the try
ExtractionPromptRaises(req) ==
    req.extracted_items.k # "list" \/ req.input_source.k # "str"

\* faulty variant: a missing explanation is defaulted instead of raising KeyError
ExtractionTry_DefaultExplanation(threshold, items, resp) ==
    LET call == JudgeCall(resp)
        sc == PyFloat(resp.score)
        cf == PyFloat(GetOr(resp.confidence, Num("0.8")))
    IN  IF call.raised THEN call
        ELSE IF resp.score.k = "absent" THEN Raised("KeyError")
        ELSE IF sc.raised THEN sc
        ELSE IF cf.raised THEN cf
        ELSE Returned(EvaluationResult(
                 sc.val, RGe(sc.val, threshold), cf.val,
                 GetOr(resp.explanation, Str("")),
                 [extracted_count |-> Len(items.list)]))

ExtractionTry(threshold, items, resp) ==
    LET call == JudgeCall(resp)
        sc == PyFloat(resp.score)
        cf == PyFloat(GetOr(resp.confidence, Num("0.8")))
    IN  IF call.raised THEN call
        ELSE IF resp.score.k = "absent" THEN Raised("KeyError")
        ELSE IF sc.raised THEN sc
        ELSE IF cf.raised THEN cf
        ELSE IF resp.explanation.k = "absent" THEN Raised("KeyError")
        ELSE Returned(EvaluationResult(
                 sc.val, RGe(sc.val, threshold), cf.val, resp.explanation,
                 [extracted_count |-> Len(items.list)]))

evaluate_extraction_accuracy(threshold, req, resp) ==
    IF ExtractionPromptRaises(req) THEN Raised("TypeError")
    ELSE LET out == ExtractionTry(threshold, req.extracted_items, resp)
         IN  IF out.raised THEN Returned(FailureResult(out.err)) ELSE out

(***************************************************************************)
(* ListifyEvaluator.evaluate_structure_compliance                          *)
(***************************************************************************)
JudgeWeight == Rat(7, 10)
ProgrammaticWeight == Rat(3, 10)

\* faulty variant: the programmatic score is computed but left out of the blend
StructureTry_JudgeOnly(threshold, items, resp) ==
    LET call == JudgeCall(resp)
        prog == validate_structure_programmatic(items)
        sc == PyFloat(resp.score)
        cf == PyFloat(GetOr(resp.confidence, Num("0.9")))
    IN  IF call.raised THEN call
        ELSE IF prog.raised THEN prog
        ELSE IF resp.score.k = "absent" THEN Raised("KeyError")
        ELSE IF sc.raised THEN sc
        ELSE IF cf.raised THEN cf
        ELSE IF resp.explanation.k = "absent" THEN Raised("KeyError")
        ELSE Returned(EvaluationResult(
                 sc.val, RGe(sc.val, threshold), cf.val, resp.explanation,
                 [programmatic_score |-> prog.val, llm_score |-> sc.val]))

StructureTry(threshold, items, resp) ==
    LET call == JudgeCall(resp)
        prog == validate_structure_programmatic(items)
        sc == PyFloat(resp.score)
        combined == RAdd(RMul(sc.val, JudgeWeight),
                         RMul(prog.val, ProgrammaticWeight))
        cf == PyFloat(GetOr(resp.confidence, Num("0.9")))
    IN  IF call.raised THEN call
        ELSE IF prog.raised THEN prog
        ELSE IF resp.score.k = "absent" THEN Raised("KeyError")
        ELSE IF sc.raised THEN sc
        ELSE IF cf.raised THEN cf
        ELSE IF resp.explanation.k = "absent" THEN Raised("KeyError")
        ELSE Returned(EvaluationResult(
                 combined, RGe(combined, threshold), cf.val, resp.explanation,
                 [programmatic_score |-> prog.val, llm_score |-> sc.val]))

\* json.dumps(extracted_items) accepts every JSON value: nothing raises
\* before the try
evaluate_structure_compliance(threshold, req, resp) ==
    LET out == StructureTry(threshold, req.extracted_items, resp)
    IN  IF out.raised THEN Returned(FailureResult(out.err)) ELSE out

(***************************************************************************)
(* ListifyEvaluator.evaluate_content_quality                               *)
(***************************************************************************)
\* input_source[:500] before the try
ContentPromptRaises(req) == req.input_source.k # "str"

\* faulty variant: confidence is read with result['confidence'], so a response
\* without it raises KeyError
ContentTry_ConfidenceRequired(threshold, resp) ==
    LET call == JudgeCall(resp)
        sc == PyFloat(resp.score)
        cf == PyFloat(resp.confidence)
        rel == PyFloat(GetOr(resp.relevance_score, Num("0.5")))
    IN  IF call.raised THEN call
        ELSE IF resp.score.k = "absent" THEN Raised("KeyError")
        ELSE IF sc.raised THEN sc
        ELSE IF resp.confidence.k = "absent" THEN Raised("KeyError")
        ELSE IF cf.raised THEN cf
        ELSE IF resp.explanation.k = "absent" THEN Raised("KeyError")
        ELSE IF rel.raised THEN rel
        ELSE Returned(EvaluationResult(
                 sc.val, RGe(sc.val, threshold), cf.val, resp.explanation,
                 [relevance_score |-> rel.val]))

ContentTry(threshold, resp) ==
    LET call == JudgeCall(resp)
        sc == PyFloat(resp.score)
        cf == PyFloat(GetOr(resp.confidence, Num("0.8")))
        rel == PyFloat(GetOr(resp.relevance_score, Num("0.5")))
    IN  IF call.raised THEN call
        ELSE IF resp.score.k = "absent" THEN Raised("KeyError")
        ELSE IF sc.raised THEN sc
        ELSE IF cf.raised THEN cf
        ELSE IF resp.explanation.k = "absent" THEN Raised("KeyError")
        ELSE IF rel.raised THEN rel
        ELSE Returned(EvaluationResult(
                 sc.val, RGe(sc.val, threshold), cf.val, resp.explanation,
                 [relevance_score |-> rel.val]))

evaluate_content_quality(threshold, req, resp) ==
    IF ContentPromptRaises(req) THEN Raised("TypeError")
    ELSE LET out == ContentTry(threshold, resp)
         IN  IF out.raised THEN Returned(FailureResult(out.err)) ELSE out

(***************************************************************************)
(* ListifyEvaluator.evaluate_all: the Aggregator.                          *)
(***************************************************************************)
MetricOrder == <<"extraction_accuracy", "structure_compliance", "content_quality">>
Metrics == {MetricOrder[i] : i \in 1..Len(MetricOrder)}
ResultKeys == Metrics \cup {"overall"}

weights ==
    [extraction_accuracy |-> Rat(4, 10),
     structure_compliance |-> Rat(3, 10),
     content_quality |-> Rat(3, 10)]

\* a key the results mapping does not hold yet
NoResult == [none |-> TRUE]
Present(res) == {k \in ResultKeys : res[k] # NoResult}

RECURSIVE SumOver(_, _, _)
\* sum(f[k] for k in keys), over the keys of `order` that are in `keys`
SumOver(order, keys, f) ==
    IF order = <<>> THEN Zero
    ELSE LET rest == SumOver(Tail(order), keys, f)
         IN  IF Head(order) \in keys THEN RAdd(f[Head(order)], rest) ELSE rest

KeyOrder == MetricOrder \o <<"overall">>

\* faulty variant: the weights are dropped and the plain mean is returned
overall_score_Unweighted(res) ==
    RDivInt(SumOver(MetricOrder, Metrics, [k \in Metrics |-> res[k].score]), 3)

\* sum(results[key].score * weights[key] for key in weights)
overall_score(res) ==
    SumOver(MetricOrder, Metrics, [k \in Metrics |-> RMul(res[k].score, weights[k])])

\* sum(...): the builtin adds the terms to 0 from left to right
RECURSIVE FloatSum(_, _)
FloatSum(acc, terms) ==
    IF terms = <<>> THEN acc
    ELSE FloatSum(DAdd(acc, Head(terms)), Tail(terms))

\* faulty variant: the weights are dropped and the scores are summed
overall_score_float_Unweighted(scores) ==
    FloatSum(DFloat(Zero), [i \in 1..Len(MetricOrder) |-> scores[MetricOrder[i]]])

\* overall_score in floats, for the metric scores `scores`
overall_score_float(scores) ==
    FloatSum(DFloat(Zero),
             [i \in 1..Len(MetricOrder) |->
                 DMul(scores[MetricOrder[i]], DFloat(weights[MetricOrder[i]]))])

\* faulty variant: results of failed evaluations are skipped in the mean
MeanConfidence_SkipFailed(res) ==
    LET ok == {k \in Present(res) : res[k].details # NoDetails}
    IN  IF ok = {} THEN Zero
        ELSE RDivInt(SumOver(KeyOrder, ok, [k \in ok |-> res[k].confidence]),
                     Cardinality(ok))

\* faulty variant: the divisor counts the overall entry as a fourth result
MeanConfidence_CountsOverall(res) ==
    RDivInt(SumOver(KeyOrder, Present(res), [k \in Present(res) |-> res[k].confidence]),
            Cardinality(Present(res)) + 1)

\* sum(r.confidence for r in results.values()) / len(results)
MeanConfidence(res) ==
    RDivInt(SumOver(KeyOrder, Present(res), [k \in Present(res) |-> res[k].confidence]),
            Cardinality(Present(res)))

\* all(r.passed for r in results.values())
AllPassed(res) == \A k \in Present(res) : res[k].passed

OverallDetails(res) ==
    [weighted_scores |-> [k \in Metrics |-> RMul(res[k].score, weights[k])],
     all_passed |-> AllPassed(res)]

OverallExplanation == Str("Overall score (weighted average)")

\* faulty variant: the verdict is the conjunction of the metrics' verdicts
Overall_AllPassed(threshold, res) ==
    EvaluationResult(overall_score(res), AllPassed(res),
                     MeanConfidence(res), OverallExplanation, OverallDetails(res))

\* faulty variant: an overall score equal to the threshold does not pass
Overall_StrictThreshold(threshold, res) ==
    EvaluationResult(overall_score(res), ~RGe(threshold, overall_score(res)),
                     MeanConfidence(res), OverallExplanation, OverallDetails(res))

\* results['overall'] = EvaluationResult(...)   (listify_evaluators.py)
Overall(threshold, res) ==
    EvaluationResult(overall_score(res), RGe(overall_score(res), threshold),
                     MeanConfidence(res), OverallExplanation, OverallDetails(res))

\* results['overall'] = BaseEvaluationResult(...)   (listify_evaluators_with_tracing.py)
TracedOverall(res) ==
    EvaluationResult(overall_score(res), AllPassed(res),
                     MeanConfidence(res), OverallExplanation, OverallDetails(res))

PromptRaises(m, req) ==
    CASE m = "extraction_accuracy" -> ExtractionPromptRaises(req)
      [] m = "structure_compliance" -> FALSE
      [] m = "content_quality" -> ContentPromptRaises(req)

Evaluate(m, threshold, req, resp) ==
    CASE m = "extraction_accuracy" -> evaluate_extraction_accuracy(threshold, req, resp)
      [] m = "structure_compliance" -> evaluate_structure_compliance(threshold, req, resp)
      [] m = "content_quality" -> evaluate_content_quality(threshold, req, resp)

\* evaluate_all run from start to end, the judge answering answers[m] to
\* metric m: the mapping of four results, or the exception that escapes
evaluate_all(threshold, req, answers) ==
    IF \E m \in Metrics : PromptRaises(m, req) THEN Raised("TypeError")
    ELSE LET res == [k \in ResultKeys |->
                        IF k \in Metrics
                        THEN Evaluate(k, threshold, req, answers[k]).val
                        ELSE NoResult]
         IN  Returned([res EXCEPT !["overall"] = Overall(threshold, res)])

(***************************************************************************)
(* Inputs: the requests the runner can hand to the engine, and the         *)
(* responses the judge can give.                                           *)
(***************************************************************************)
Request(src, type, items, expected, threshold) ==
    [input_source |-> src, input_type |-> type, extracted_items |-> items,
     expected_items |-> expected, threshold |-> threshold]

PerfectItem == Item(Str("Buy milk"), Str("groceries"), Str("2 gallons"), Null)
InvalidCategoryItem == Item(Str("Buy milk"), Str("invalid_category"), Null, Null)

EngineLists ==
    {ListOf(q) : q \in SeqsUpTo({PerfectItem}, MaxItems)}
    \cup {ListOf(<<InvalidCategoryItem>>), ListOf(<<NotAMapping>>), NullItems, NumItems}

Thresholds == {Rat(7, 10), Rat(1, 2)}

ExpectedList == [k |-> "list", s |-> "milk, eggs"]

Requests ==
    {Request(src, Str("text"), items, Null, t) :
        src \in {Str("Buy milk, eggs"), Null}, items \in EngineLists, t \in Thresholds}
    \cup {Request(Str("Buy milk, eggs"), Null, ListOf(<<PerfectItem>>), ExpectedList, Rat(7, 10))}
    \cup {Request(Str("Buy milk, eggs"), Str("text"), ListOf(<<PerfectItem>>), Null, Zero)}

WellFormedResponses ==
    {JudgeJson(Num(sc), cf, Str("judged"), Absent) :
        sc \in {"0.5", "0.9", "1"}, cf \in {Absent}}
    \cup {JudgeJson(Num("0.9"), Num("0.5"), Str("judged"), Absent)}

MalformedResponses ==
    { JudgeRaises,
      JudgeBadJson,
      JudgeJson(Absent, Num("0.9"), Str("judged"), Absent),
      JudgeJson(Str("high"), Num("0.9"), Str("judged"), Absent),
      JudgeJson(Num("0.9"), Null, Str("judged"), Absent),
      JudgeJson(Num("0.9"), Num("0.9"), Absent, Absent) }

OddResponses ==
    { JudgeJson(Num("1.5"), Absent, Str("judged"), Absent),
      JudgeJson(Str("0.9"), Num("0.9"), Str("judged"), Absent),
      JudgeJson(Num("0.9"), Num("0.9"), Null, Absent),
      JudgeJson(Num("0.9"), Num("0.9"), Str("judged"), Null) }

JudgeResponses == WellFormedResponses \cup MalformedResponses \cup OddResponses

NoResponse == [kind |-> "none", score |-> Absent, confidence |-> Absent,
               explanation |-> Absent, relevance_score |-> Absent]

\* the judge answers a metric's prompt once; both engines see that answer
Answers(m) == IF judge[m] = NoResponse THEN JudgeResponses ELSE {judge[m]}

(***************************************************************************)
(* Inputs of the float arithmetic harness: metric scores as the judge's    *)
(* JSON spells them, and item lists long enough for the order of the       *)
(* additions to matter.                                                    *)
(***************************************************************************)
\* longest item list handed to the float arithmetic harness
MaxFloatItems == 3

FloatScores == {Rat(0, 1), Rat(45, 100), Rat(1, 2), Rat(9, 10), Rat(1, 1)}

FloatItems ==
    { Item(Null, Absent, Null, Null),
      Item(Null, Absent, Null, Num("2")),
      Item(Str("Buy milk"), Absent, Num("2"), Null),
      InvalidCategoryItem,
      PerfectItem }

NoScores == [m \in Metrics |-> Zero]

FloatInputs ==
    {[op |-> "overall", scores |-> sc, items |-> <<>>] :
        sc \in [Metrics -> FloatScores]}
    \cup {[op |-> "validate", scores |-> NoScores, items |-> q] :
             q \in SeqsUpTo(FloatItems, MaxFloatItems) \ {<<>>}}

NoFloatInput == [op |-> "none", scores |-> NoScores, items |-> <<>>]
FloatNotRun == [done |-> FALSE, val |-> DFloat(Zero)]

(***************************************************************************)
(* LLMJudgeEvaluator (llm_judge_evaluators.py): the judge-only evaluators  *)
(* of tone, correctness, tool calling and hallucinations.  Their results   *)
(* carry the fields of the judge's JSON as they are, without float().      *)
(***************************************************************************)
JsonTrue == [k |-> "bool", s |-> "true"]
JsonFalse == [k |-> "bool", s |-> "false"]

\* bool(v) for the values of a judge response
TruthyJson(v) == v = JsonTrue \/ Truthy(v)

\* a context argument: None, a mapping, or text
NoContext == Null
ContextMapping == [k |-> "dict", s |-> "codebase_files"]
ContextText == Str("src/config/openai.js")

\* context.get(...) while the prompt is built, before the try
ContextRaises(context) == context.k = "str" /\ Truthy(context)

AuxRaises == [kind |-> "raise", score |-> Absent, confidence |-> Absent,
              explanation |-> Absent, has_hallucinations |-> Absent]
AuxBadJson == [kind |-> "badjson", score |-> Absent, confidence |-> Absent,
               explanation |-> Absent, has_hallucinations |-> Absent]
\* JSON that is not an object, such as a list: result["score"] raises
AuxNotAnObject == [kind |-> "list", score |-> Absent, confidence |-> Absent,
                   explanation |-> Absent, has_hallucinations |-> Absent]
AuxJson(score, confidence, explanation, hallucinations) ==
    [kind |-> "json", score |-> score, confidence |-> confidence,
     explanation |-> explanation, has_hallucinations |-> hallucinations]

\* EvaluationResult of llm_judge_evaluators.py
JudgeOnlyResult(score, confidence, explanation, details) ==
    [score |-> score, confidence |-> confidence,
     explanation |-> explanation, details |-> details]

\* details built with result.get(key, [])
JudgeDetails == [empty |-> FALSE]

\* self.client.chat.completions.create(...) then json.loads(...)
AuxCall(resp) ==
    IF resp.kind = "raise" THEN Raised("APIError")
    ELSE IF resp.kind = "badjson" THEN Raised("JSONDecodeError")
    ELSE IF resp.kind = "list" THEN Raised("TypeError")
    ELSE Returned(Zero)

\* the try block of evaluate_tone, evaluate_correctness, evaluate_tool_calling
RatingTry(resp) ==
    LET call == AuxCall(resp)
    IN  IF call.raised THEN call
        ELSE IF resp.score.k = "absent" THEN Raised("KeyError")
        ELSE IF resp.confidence.k = "absent" THEN Raised("KeyError")
        ELSE IF resp.explanation.k = "absent" THEN Raised("KeyError")
        ELSE Returned(JudgeOnlyResult(resp.score, resp.confidence,
                                      resp.explanation, JudgeDetails))

\* faulty variant: the fallback of a failed rating is the bottom score 0.0
RatingFallback_Zero(e) ==
    JudgeOnlyResult(Num("0.0"), Num("0.0"), Str("Evaluation failed: " \o e), NoDetails)

\* except Exception as e: return EvaluationResult(score=3.0, confidence=0.0, ...)
RatingFallback(e) ==
    JudgeOnlyResult(Num("3.0"), Num("0.0"), Str("Evaluation failed: " \o e), NoDetails)

evaluate_tone(resp) ==
    LET out == RatingTry(resp)
    IN  IF out.raised THEN Returned(RatingFallback(out.err)) ELSE out

evaluate_correctness(context, resp) ==
    IF ContextRaises(context) THEN Raised("AttributeError")
    ELSE LET out == RatingTry(resp)
         IN  IF out.raised THEN Returned(RatingFallback(out.err)) ELSE out

\* available_tools is only formatted into the prompt
evaluate_tool_calling(resp) ==
    LET out == RatingTry(resp)
    IN  IF out.raised THEN Returned(RatingFallback(out.err)) ELSE out

\* the try block of detect_hallucinations
HallucinationTry(resp) ==
    LET call == AuxCall(resp)
    IN  IF call.raised THEN call
        ELSE IF resp.has_hallucinations.k = "absent" THEN Raised("KeyError")
        ELSE IF resp.confidence.k = "absent" THEN Raised("KeyError")
        ELSE IF resp.explanation.k = "absent" THEN Raised("KeyError")
        ELSE Returned(JudgeOnlyResult(
                 IF TruthyJson(resp.has_hallucinations) THEN Num("0.0") ELSE Num("1.0"),
                 resp.confidence, resp.explanation, JudgeDetails))

\* except Exception as e: return EvaluationResult(score=0.0, confidence=0.0, ...)
HallucinationFallback(e) ==
    JudgeOnlyResult(Num("0.0"), Num("0.0"), Str("Evaluation failed: " \o e), NoDetails)

detect_hallucinations(context, resp) ==
    IF ContextRaises(context) THEN Raised("AttributeError")
    ELSE LET out == HallucinationTry(resp)
         IN  IF out.raised THEN Returned(HallucinationFallback(out.err)) ELSE out

(***************************************************************************)
(* Inputs of the judge-only evaluators.                                    *)
(***************************************************************************)
AuxScores ==
    {Absent, Null, Str("high"), Num("0"), Num("1"), Num("3"), Num("4.5"),
     Num("5"), Num("7")}

AuxResponses ==
    {AuxRaises, AuxBadJson, AuxNotAnObject}
    \cup {AuxJson(sc, cf, ex, Absent) :
             sc \in AuxScores, cf \in {Absent, Num("0.9")},
             ex \in {Absent, Str("judged")}}
    \cup {AuxJson(Absent, cf, ex, h) :
             cf \in {Absent, Num("0.9")}, ex \in {Absent, Str("judged")},
             h \in {JsonTrue, JsonFalse, Null, Str("no")}}

RatingOps == {"evaluate_tone", "evaluate_correctness", "evaluate_tool_calling"}
AuxOps == RatingOps \cup {"detect_hallucinations"}

AuxInputs ==
    {[op |-> op, context |-> NoContext, resp |-> r] :
        op \in AuxOps, r \in AuxResponses}
    \cup {[op |-> op, context |-> c, resp |-> r] :
             op \in {"evaluate_correctness", "detect_hallucinations"},
             c \in {ContextMapping, ContextText}, r \in AuxResponses}

NoAuxInput == [op |-> "none", context |-> NoContext, resp |-> AuxRaises]

(***************************************************************************)
(* Two evaluations on independent evaluator instances, as two callers of   *)
(* evaluate_all_metrics with different thresholds produce them.            *)
(***************************************************************************)
Instances == {"a", "b"}

InstanceThreshold == [a |-> Rat(7, 10), b |-> Rat(1, 2)]

InstanceItems == [a |-> ListOf(<<PerfectItem>>), b |-> ListOf(<<InvalidCategoryItem>>)]

PairRequest(i) ==
    Request(Str("Buy milk, eggs"), Str("text"), InstanceItems[i], Null,
            InstanceThreshold[i])

PairResponses ==
    { JudgeJson(Num("0.5"), Absent, Str("judged"), Absent),
      JudgeJson(Num("0.9"), Num("0.5"), Str("judged"), Absent),
      JudgeRaises }

\* an instance: its configuration, the call's arguments, and how far its
\* evaluate_all has come
Instance(i) ==
    [pc |-> "extraction_accuracy",
     evaluator |-> ListifyEvaluator("gpt-4o", InstanceThreshold[i]),
     request |-> PairRequest(i),
     judge |-> [m \in Metrics |-> NoResponse],
     results |-> [k \in ResultKeys |-> NoResult]]

NoInstance ==
    [pc |-> "idle",
     evaluator |-> ListifyEvaluator("gpt-4o", Rat(7, 10)),
     request |-> Request(Str(""), Str("text"), ListOf(<<>>), Null, Rat(7, 10)),
     judge |-> [m \in Metrics |-> NoResponse],
     results |-> [k \in ResultKeys |-> NoResult]]

(***************************************************************************)
(* LLMEvaluationRunner (run_llm_evaluations.py): runs three test suites as *)
(* subprocesses, records one result per suite and turns the summary into   *)
(* an exit code.                                                           *)
(***************************************************************************)
\* self.results["summary"] as __init__ sets it
NewSummary ==
    [total_tests |-> 0, passed |-> 0, failed |-> 0, skipped |-> 0,
     average_score |-> Zero]

\* the runner after __init__; exit_code -1: run_all_tests has not returned
NewRunner(api) ==
    [pc |-> "basic", api_available |-> api, tests |-> <<>>,
     summary |-> NewSummary, exit_code |-> -1]

NoRunner ==
    [pc |-> "idle", api_available |-> FALSE, tests |-> <<>>,
     summary |-> NewSummary, exit_code |-> -1]

\* what subprocess.run does: it completes with a return code and the scores
\* its output prints, times out, or cannot be started
Completed(code, scores) == [kind |-> "completed", returncode |-> code, scores |-> scores]
TimedOut == [kind |-> "timeout", returncode |-> 0, scores |-> <<>>]
NotStarted == [kind |-> "oserror", returncode |-> 0, scores |-> <<>>]

SuiteRuns ==
    { Completed(0, <<>>),
      Completed(0, <<Rat(85, 100)>>),
      Completed(0, <<Rat(1, 2), One>>),
      Completed(1, <<>>),
      TimedOut,
      NotStarted }

\* faulty variant: a suite that timed out or could not run counts as failed
add_test_result_TimeoutFails(r, test_name, status, score) ==
    [r EXCEPT
        !.tests = Append(@, [name |-> test_name, status |-> status, score |-> score]),
        !.summary.total_tests = @ + 1,
        !.summary.passed = IF status = "passed" THEN @ + 1 ELSE @,
        !.summary.failed = IF status \in {"failed", "timeout", "error"} THEN @ + 1 ELSE @,
        !.summary.skipped = IF status = "skipped" THEN @ + 1 ELSE @]

\* LLMEvaluationRunner._add_test_result
add_test_result(r, test_name, status, score) ==
    [r EXCEPT
        !.tests = Append(@, [name |-> test_name, status |-> status, score |-> score]),
        !.summary.total_tests = @ + 1,
        !.summary.passed = IF status = "passed" THEN @ + 1 ELSE @,
        !.summary.failed = IF status = "failed" THEN @ + 1 ELSE @,
        !.summary.skipped = IF status = "skipped" THEN @ + 1 ELSE @]

RECURSIVE SumScores(_)
SumScores(scores) ==
    IF scores = <<>> THEN Zero ELSE RAdd(Head(scores), SumScores(Tail(scores)))

\* sum(scores) / len(scores) if scores else 0.0
AverageScore(scores) ==
    IF scores = <<>> THEN Zero ELSE RDivInt(SumScores(scores), Len(scores))

\* LLMEvaluationRunner._parse_test_results
parse_test_results(r, test_type, run) ==
    IF run.returncode = 0
    THEN add_test_result(r, test_type, "passed", AverageScore(run.scores))
    ELSE add_test_result(r, test_type, "failed", Zero)

\* LLMEvaluationRunner._parse_pytest_results
parse_pytest_results(r, run) ==
    IF run.returncode = 0
    THEN add_test_result(r, "pytest", "passed", One)
    ELSE add_test_result(r, "pytest", "failed", Zero)

\* the try/except around subprocess.run in run_basic_tests, run_advanced_tests
\* and run_pytest_tests
RunSuite(r, name, run) ==
    IF run.kind = "timeout" THEN add_test_result(r, name, "timeout", Zero)
    ELSE IF run.kind = "oserror" THEN add_test_result(r, name, "error", Zero)
    ELSE IF name = "pytest" THEN parse_pytest_results(r, run)
    ELSE parse_test_results(r, name, run)

\* scores = [test["score"] for test in self.results["tests"] if test["score"] > 0]
PositiveScores(tests) == SelectSeq([i \in 1..Len(tests) |-> tests[i].score],
                                   LAMBDA x : x.n > 0)

\* generate_report: average_score is replaced only when some score is positive
ReportedAverage(r) ==
    IF PositiveScores(r.tests) = <<>> THEN r.summary.average_score
    ELSE AverageScore(PositiveScores(r.tests))

\* the exit code run_all_tests derives from the summary
ExitCode(summary) ==
    IF summary.failed > 0 THEN 1
    ELSE IF summary.passed = 0 THEN 2
    ELSE 0

(***************************************************************************)
(* State.                                                                  *)
(***************************************************************************)
Engines == {"plain", "traced"}
SpanNames == Metrics \cup {"all_metrics"}

NoSpan == [started |-> 0, ended |-> 0]
NotRun == [raised |-> FALSE, err |-> "not run", val |-> Zero]

\* the state of the components beside the engine
pairVars == <<inst, instCalls>>
moreVars == <<aIn, aOut, evaluator, pairVars, runner>>
harnessVars == <<vItems, vOut, fIn, fOut, moreVars>>
vars == <<request, judge, spanType, pc, results, calls, error, spans,
          vItems, vOut, fIn, fOut, aIn, aOut, evaluator, inst, instCalls,
          runner>>
engineVars == <<request, judge, spanType, pc, results, calls, error, spans>>

\* the components beside the engine, before any of them is used
IdlePair ==
    /\ inst = [i \in Instances |-> NoInstance]
    /\ instCalls = <<>>

IdleMore ==
    /\ aIn = NoAuxInput
    /\ aOut = NotRun
    /\ IdlePair
    /\ runner = NoRunner

\* evaluator = ListifyEvaluator(threshold=threshold), and likewise
\* ListifyEvaluatorWithTracing(threshold=threshold)
Constructed ==
    evaluator = [e \in Engines |-> ListifyEvaluator("gpt-4o", request.threshold)]

\* after run_evaluation.main has read the request and built the evaluator
InitEngines ==
    /\ judge = [m \in Metrics |-> NoResponse]
    /\ pc = [plain |-> "extraction_accuracy", traced |-> "open"]
    /\ results = [e \in Engines |-> [k \in ResultKeys |-> NoResult]]
    /\ calls = [e \in Engines |-> <<>>]
    /\ error = [e \in Engines |-> ""]
    /\ spans = [n \in SpanNames |-> NoSpan]

Init ==
    /\ request \in Requests
    /\ spanType = "unset"
    /\ InitEngines
    /\ vItems = NullItems
    /\ vOut = NotRun
    /\ fIn = NoFloatInput
    /\ fOut = FloatNotRun
    /\ IdleMore
    /\ Constructed

(***************************************************************************)
(* run_evaluation.main -> ListifyEvaluator.evaluate_all, one step per      *)
(* metric evaluator and one for the aggregation.                           *)
(***************************************************************************)
\* an exception leaves evaluate_all: main prints the error and exits 1
Fails(e, err) ==
    /\ pc' = [pc EXCEPT ![e] = "error"]
    /\ error' = [error EXCEPT ![e] = err]

PlainMetric(m, next) ==
    /\ pc["plain"] = m
    /\ IF PromptRaises(m, request)
       THEN /\ Fails("plain", "TypeError")
            /\ UNCHANGED <<judge, results, calls>>
       ELSE \E r \in Answers(m) :
            /\ judge' = [judge EXCEPT ![m] = r]
            /\ calls' = [calls EXCEPT !["plain"] = Append(@, m)]
            /\ results' = [results EXCEPT !["plain"][m] =
                              Evaluate(m, evaluator["plain"].threshold, request, r).val]
            /\ pc' = [pc EXCEPT !["plain"] = next]
            /\ UNCHANGED error
    /\ UNCHANGED <<request, spanType, spans, harnessVars>>

PlainExtraction == PlainMetric("extraction_accuracy", "structure_compliance")
PlainStructure == PlainMetric("structure_compliance", "content_quality")
PlainContent == PlainMetric("content_quality", "aggregate")

\* faulty variant: the item list is emptied once it has been scored
PlainAggregate_ClearsItems ==
    /\ pc["plain"] = "aggregate"
    /\ results' = [results EXCEPT !["plain"]["overall"] =
                      Overall(evaluator["plain"].threshold, results["plain"])]
    /\ pc' = [pc EXCEPT !["plain"] = "done"]
    /\ request' = [request EXCEPT !.extracted_items = NullItems]
    /\ UNCHANGED <<judge, spanType, calls, error, spans, harnessVars>>

PlainAggregate ==
    /\ pc["plain"] = "aggregate"
    /\ results' = [results EXCEPT !["plain"]["overall"] =
                      Overall(evaluator["plain"].threshold, results["plain"])]
    /\ pc' = [pc EXCEPT !["plain"] = "done"]
    /\ UNCHANGED <<request, judge, spanType, calls, error, spans, harnessVars>>

(***************************************************************************)
(* ListifyEvaluatorWithTracing.evaluate_all                                *)
(***************************************************************************)
Start(n) == [spans EXCEPT ![n].started = @ + 1]
End(sp, n, times) == [sp EXCEPT ![n].ended = @ + times]

\* The tracing run replays the request and the judge's answers of the plain
\* run.  tracer.start_span fails when the sink is unavailable; otherwise it
\* returns a span of the sink's type, which either offers set_parent() or
\* does not.
\* with tracer.start_span("...all_metrics") as all_metrics_span: the four
\* set_attribute calls evaluate len(extracted_items) and input_source[:200]
TracedOpen ==
    /\ pc["traced"] = "open"
    /\ pc["plain"] \in {"done", "error"}
    /\ spanType' \in {"unavailable", "with_set_parent", "without_set_parent"}
    /\ IF spanType' = "unavailable"
       THEN \* start_span raises: no span exists, nothing catches the error
            /\ spans' = spans
            /\ Fails("traced", "SinkError")
       ELSE IF request.extracted_items.k # "list" \/ request.input_source.k # "str"
       THEN /\ spans' = End(Start("all_metrics"), "all_metrics", 1)
            /\ Fails("traced", "TypeError")
       ELSE /\ spans' = Start("all_metrics")
            /\ pc' = [pc EXCEPT !["traced"] = "extraction_accuracy"]
            /\ UNCHANGED error
    /\ UNCHANGED <<request, judge, results, calls, harnessVars>>

\* the span's input preview: input_source[:200], "N/A" for structure compliance
PreviewRaises(m, req) ==
    m # "structure_compliance" /\ req.input_source.k # "str"

\* self.evaluate_<metric>(..., all_metrics_span)
TracedMetric(m, next) ==
    /\ pc["traced"] = m
    /\ IF request.extracted_items.k # "list"
       THEN \* len(extracted_items), before any span is started
            /\ spans' = End(spans, "all_metrics", 1)
            /\ Fails("traced", "TypeError")
            /\ UNCHANGED <<judge, results, calls>>
       ELSE IF PreviewRaises(m, request)
       THEN \* _create_evaluation_span raises after start_span: the with
            \* statement is never entered and the span is never ended
            /\ spans' = End(Start(m), "all_metrics", 1)
            /\ Fails("traced", "TypeError")
            /\ UNCHANGED <<judge, results, calls>>
       ELSE IF spanType = "without_set_parent"
       THEN \* span.set_parent(parent_span) raises AttributeError
            /\ spans' = End(End(Start(m), m, 1), "all_metrics", 1)
            /\ Fails("traced", "AttributeError")
            /\ UNCHANGED <<judge, results, calls>>
       ELSE IF PromptRaises(m, request)
       THEN /\ spans' = End(End(Start(m), m, 1), "all_metrics", 1)
            /\ Fails("traced", "TypeError")
            /\ UNCHANGED <<judge, results, calls>>
       ELSE \E r \in Answers(m) :
            LET result == Evaluate(m, evaluator["traced"].threshold, request, r).val
            IN  /\ judge' = [judge EXCEPT ![m] = r]
                /\ calls' = [calls EXCEPT !["traced"] = Append(@, m)]
                /\ IF result.explanation.k # "str"
                   THEN \* _record_evaluation_result: result.explanation[:500]
                        /\ spans' = End(End(Start(m), m, 1), "all_metrics", 1)
                        /\ Fails("traced", "TypeError")
                        /\ UNCHANGED results
                   ELSE \* span.end() in _record_evaluation_result, then
                        \* again when the with statement exits
                        /\ spans' = End(Start(m), m, 2)
                        /\ results' = [results EXCEPT !["traced"][m] = result]
                        /\ pc' = [pc EXCEPT !["traced"] = next]
                        /\ UNCHANGED error
    /\ UNCHANGED <<request, spanType, harnessVars>>

TracedExtraction == TracedMetric("extraction_accuracy", "structure_compliance")
TracedStructure == TracedMetric("structure_compliance", "content_quality")
TracedContent == TracedMetric("content_quality", "aggregate")

TracedAggregate ==
    /\ pc["traced"] = "aggregate"
    /\ results' = [results EXCEPT !["traced"]["overall"] =
                      TracedOverall(results["traced"])]
    /\ spans' = End(spans, "all_metrics", 1)
    /\ pc' = [pc EXCEPT !["traced"] = "done"]
    /\ UNCHANGED <<request, judge, spanType, calls, error, harnessVars>>

Next ==
    \/ PlainExtraction
    \/ PlainStructure
    \/ PlainContent
    \/ PlainAggregate
    \/ TracedOpen
    \/ TracedExtraction
    \/ TracedStructure
    \/ TracedContent
    \/ TracedAggregate

Spec == Init /\ [][Next]_vars

(***************************************************************************)
(* The Structural Validator on its own.                                    *)
(***************************************************************************)
InitValidator ==
    /\ request = Request(Str(""), Str("text"), ListOf(<<>>), Null, Rat(7, 10))
    /\ spanType = "unset"
    /\ InitEngines
    /\ vItems \in ValidatorInputs
    /\ vOut = NotRun
    /\ fIn = NoFloatInput
    /\ fOut = FloatNotRun
    /\ IdleMore
    /\ Constructed

Validate ==
    /\ vOut = NotRun
    /\ vOut' = validate_structure_programmatic(vItems)
    /\ UNCHANGED <<vItems, fIn, fOut, engineVars, moreVars>>

NextValidator == Validate

SpecValidator == InitValidator /\ [][NextValidator]_vars

(***************************************************************************)
(* The float arithmetic of the Aggregator and of the Structural Validator  *)
(* on their own.                                                           *)
(***************************************************************************)
InitFloat ==
    /\ request = Request(Str(""), Str("text"), ListOf(<<>>), Null, Rat(7, 10))
    /\ spanType = "unset"
    /\ InitEngines
    /\ vItems = NullItems
    /\ vOut = NotRun
    /\ fIn \in FloatInputs
    /\ fOut = FloatNotRun
    /\ IdleMore
    /\ Constructed

\* evaluate_all computes overall_score from three metric scores
FloatAggregate ==
    /\ ~fOut.done
    /\ fIn.op = "overall"
    /\ fOut' = [done |-> TRUE,
                val |-> overall_score_float([m \in Metrics |-> DFloat(fIn.scores[m])])]
    /\ UNCHANGED <<fIn, vItems, vOut, engineVars, moreVars>>

\* _validate_structure_programmatic scores an item list
FloatValidate ==
    /\ ~fOut.done
    /\ fIn.op = "validate"
    /\ fOut' = [done |-> TRUE, val |-> validate_structure_programmatic_float(fIn.items)]
    /\ UNCHANGED <<fIn, vItems, vOut, engineVars, moreVars>>

NextFloat ==
    \/ FloatAggregate
    \/ FloatValidate

SpecFloat == InitFloat /\ [][NextFloat]_vars

(***************************************************************************)
(* One metric operation of ListifyEvaluatorWithTracing called on its own,  *)
(* with no parent span.                                                    *)
(***************************************************************************)
InitDirect ==
    /\ request \in Requests
    /\ spanType = "unset"
    /\ judge = [m \in Metrics |-> NoResponse]
    /\ pc \in {[plain |-> "idle", traced |-> m] : m \in Metrics}
    /\ results = [e \in Engines |-> [k \in ResultKeys |-> NoResult]]
    /\ calls = [e \in Engines |-> <<>>]
    /\ error = [e \in Engines |-> ""]
    /\ spans = [n \in SpanNames |-> NoSpan]
    /\ vItems = NullItems
    /\ vOut = NotRun
    /\ fIn = NoFloatInput
    /\ fOut = FloatNotRun
    /\ IdleMore
    /\ Constructed

\* with self._create_evaluation_span(...) as span: run the base evaluator,
\* then self._record_evaluation_result(span, result, ...)
DirectMetric(m) ==
    /\ pc["plain"] = "idle"
    /\ pc["traced"] = m
    /\ IF request.extracted_items.k # "list"
       THEN \* len(extracted_items), before any span is started
            /\ Fails("traced", "TypeError")
            /\ UNCHANGED <<spanType, spans, judge, results, calls>>
       ELSE \E t \in {"unavailable", "with_set_parent", "without_set_parent"} :
            /\ spanType' = t
            /\ IF t = "unavailable"
               THEN \* start_span raises: no span exists
                    /\ Fails("traced", "SinkError")
                    /\ UNCHANGED <<spans, judge, results, calls>>
               ELSE IF PreviewRaises(m, request)
               THEN \* _create_evaluation_span raises after start_span: the
                    \* with statement is never entered, the span never ended
                    /\ spans' = Start(m)
                    /\ Fails("traced", "TypeError")
                    /\ UNCHANGED <<judge, results, calls>>
               ELSE IF PromptRaises(m, request)
               THEN /\ spans' = End(Start(m), m, 1)
                    /\ Fails("traced", "TypeError")
                    /\ UNCHANGED <<judge, results, calls>>
               ELSE \E r \in Answers(m) :
                    LET result == Evaluate(m, evaluator["traced"].threshold, request, r).val
                    IN  /\ judge' = [judge EXCEPT ![m] = r]
                        /\ calls' = [calls EXCEPT !["traced"] = Append(@, m)]
                        /\ IF result.explanation.k # "str"
                           THEN \* result.explanation[:500] raises; the with
                                \* statement ends the span
                                /\ spans' = End(Start(m), m, 1)
                                /\ Fails("traced", "TypeError")
                                /\ UNCHANGED results
                           ELSE \* span.end() in _record_evaluation_result,
                                \* then again when the with statement exits
                                /\ spans' = End(Start(m), m, 2)
                                /\ results' = [results EXCEPT !["traced"][m] = result]
                                /\ pc' = [pc EXCEPT !["traced"] = "done"]
                                /\ UNCHANGED error
    /\ UNCHANGED <<request, harnessVars>>

DirectExtraction == DirectMetric("extraction_accuracy")
DirectStructure == DirectMetric("structure_compliance")
DirectContent == DirectMetric("content_quality")

NextDirect ==
    \/ DirectExtraction
    \/ DirectStructure
    \/ DirectContent

SpecDirect == InitDirect /\ [][NextDirect]_vars

(***************************************************************************)
(* The judge-only evaluators, one call each.                               *)
(***************************************************************************)
InitAux ==
    /\ request = Request(Str(""), Str("text"), ListOf(<<>>), Null, Rat(7, 10))
    /\ spanType = "unset"
    /\ InitEngines
    /\ vItems = NullItems
    /\ vOut = NotRun
    /\ fIn = NoFloatInput
    /\ fOut = FloatNotRun
    /\ aIn \in AuxInputs
    /\ aOut = NotRun
    /\ IdlePair
    /\ runner = NoRunner
    /\ Constructed

EvaluateTone ==
    /\ aOut = NotRun
    /\ aIn.op = "evaluate_tone"
    /\ aOut' = evaluate_tone(aIn.resp)
    /\ UNCHANGED <<aIn, evaluator, pairVars, runner, vItems, vOut, fIn, fOut,
                   engineVars>>

EvaluateCorrectness ==
    /\ aOut = NotRun
    /\ aIn.op = "evaluate_correctness"
    /\ aOut' = evaluate_correctness(aIn.context, aIn.resp)
    /\ UNCHANGED <<aIn, evaluator, pairVars, runner, vItems, vOut, fIn, fOut,
                   engineVars>>

EvaluateToolCalling ==
    /\ aOut = NotRun
    /\ aIn.op = "evaluate_tool_calling"
    /\ aOut' = evaluate_tool_calling(aIn.resp)
    /\ UNCHANGED <<aIn, evaluator, pairVars, runner, vItems, vOut, fIn, fOut,
                   engineVars>>

DetectHallucinations ==
    /\ aOut = NotRun
    /\ aIn.op = "detect_hallucinations"
    /\ aOut' = detect_hallucinations(aIn.context, aIn.resp)
    /\ UNCHANGED <<aIn, evaluator, pairVars, runner, vItems, vOut, fIn, fOut,
                   engineVars>>

NextAux ==
    \/ EvaluateTone
    \/ EvaluateCorrectness
    \/ EvaluateToolCalling
    \/ DetectHallucinations

SpecAux == InitAux /\ [][NextAux]_vars

(***************************************************************************)
(* Two instances running evaluate_all at the same time: their steps         *)
(* interleave between judge calls.                                         *)
(***************************************************************************)
InitPair ==
    /\ request = Request(Str(""), Str("text"), ListOf(<<>>), Null, Rat(7, 10))
    /\ spanType = "unset"
    /\ InitEngines
    /\ vItems = NullItems
    /\ vOut = NotRun
    /\ fIn = NoFloatInput
    /\ fOut = FloatNotRun
    /\ aIn = NoAuxInput
    /\ aOut = NotRun
    /\ Constructed
    /\ inst = [i \in Instances |-> Instance(i)]
    /\ instCalls = <<>>
    /\ runner = NoRunner

\* faulty variant: the threshold is one setting shared by all instances, the
\* one of the instance constructed last
PairMetric_SharedThreshold(i, m, next) ==
    /\ inst[i].pc = m
    /\ IF PromptRaises(m, inst[i].request)
       THEN /\ inst' = [inst EXCEPT ![i].pc = "error"]
            /\ UNCHANGED instCalls
       ELSE \E r \in PairResponses :
            /\ inst' = [inst EXCEPT
                           ![i].judge[m] = r,
                           ![i].results[m] =
                               Evaluate(m, inst["b"].evaluator.threshold,
                                        inst[i].request, r).val,
                           ![i].pc = next]
            /\ instCalls' = Append(instCalls, i)
    /\ UNCHANGED <<engineVars, vItems, vOut, fIn, fOut, aIn, aOut, evaluator,
                   runner>>

\* instance i evaluates metric m: one judge call
PairMetric(i, m, next) ==
    /\ inst[i].pc = m
    /\ IF PromptRaises(m, inst[i].request)
       THEN /\ inst' = [inst EXCEPT ![i].pc = "error"]
            /\ UNCHANGED instCalls
       ELSE \E r \in PairResponses :
            /\ inst' = [inst EXCEPT
                           ![i].judge[m] = r,
                           ![i].results[m] =
                               Evaluate(m, inst[i].evaluator.threshold,
                                        inst[i].request, r).val,
                           ![i].pc = next]
            /\ instCalls' = Append(instCalls, i)
    /\ UNCHANGED <<engineVars, vItems, vOut, fIn, fOut, aIn, aOut, evaluator,
                   runner>>

PairExtraction ==
    \E i \in Instances : PairMetric(i, "extraction_accuracy", "structure_compliance")
PairStructure ==
    \E i \in Instances : PairMetric(i, "structure_compliance", "content_quality")
PairContent ==
    \E i \in Instances : PairMetric(i, "content_quality", "aggregate")

\* instance i computes its overall result
PairAggregate ==
    \E i \in Instances :
        /\ inst[i].pc = "aggregate"
        /\ inst' = [inst EXCEPT
                       ![i].results["overall"] =
                           Overall(inst[i].evaluator.threshold, inst[i].results),
                       ![i].pc = "done"]
        /\ UNCHANGED <<instCalls, engineVars, vItems, vOut, fIn, fOut,
                       aIn, aOut, evaluator, runner>>

NextPair ==
    \/ PairExtraction
    \/ PairStructure
    \/ PairContent
    \/ PairAggregate

SpecPair == InitPair /\ [][NextPair]_vars

(***************************************************************************)
(* LLMEvaluationRunner.run_all_tests, one step per suite and one for the   *)
(* report and the exit code.                                               *)
(***************************************************************************)
InitRunner ==
    /\ request = Request(Str(""), Str("text"), ListOf(<<>>), Null, Rat(7, 10))
    /\ spanType = "unset"
    /\ InitEngines
    /\ vItems = NullItems
    /\ vOut = NotRun
    /\ fIn = NoFloatInput
    /\ fOut = FloatNotRun
    /\ aIn = NoAuxInput
    /\ aOut = NotRun
    /\ IdlePair
    /\ Constructed
    /\ runner \in {NewRunner(api) : api \in BOOLEAN}

runnerFrame == <<engineVars, vItems, vOut, fIn, fOut, aIn, aOut, evaluator, pairVars>>

\* run_basic_tests
RunBasic ==
    /\ runner.pc = "basic"
    /\ \E run \in SuiteRuns :
           runner' = [RunSuite(runner, "basic", run) EXCEPT !.pc = "advanced"]
    /\ UNCHANGED runnerFrame

\* run_advanced_tests
RunAdvanced ==
    /\ runner.pc = "advanced"
    /\ IF ~runner.api_available
       THEN runner' = [add_test_result(runner, "advanced", "skipped", Zero)
                          EXCEPT !.pc = "pytest"]
       ELSE \E run \in SuiteRuns :
                runner' = [RunSuite(runner, "advanced", run) EXCEPT !.pc = "pytest"]
    /\ UNCHANGED runnerFrame

\* run_pytest_tests
RunPytest ==
    /\ runner.pc = "pytest"
    /\ \E run \in SuiteRuns :
           runner' = [RunSuite(runner, "pytest", run) EXCEPT !.pc = "report"]
    /\ UNCHANGED runnerFrame

\* generate_report, then the exit code; writing the report file can fail,
\* and then the error leaves run_all_tests
ReportAndExit ==
    /\ runner.pc = "report"
    /\ \E written \in BOOLEAN :
           LET reported == [runner EXCEPT !.summary.average_score = ReportedAverage(runner)]
           IN  runner' = IF written
                         THEN [reported EXCEPT !.pc = "returned",
                                               !.exit_code = ExitCode(reported.summary)]
                         ELSE [reported EXCEPT !.pc = "raised"]
    /\ UNCHANGED runnerFrame

NextRunner ==
    \/ RunBasic
    \/ RunAdvanced
    \/ RunPytest
    \/ ReportAndExit

SpecRunner == InitRunner /\ [][NextRunner]_vars

(***************************************************************************)
(* Properties.                                                             *)
(***************************************************************************)
PlainDone == pc["plain"] = "done"
plain == results["plain"]

\* C1: evaluate_all's overall score is 0.4*a + 0.3*b + 0.3*c for the three
\* metric scores a, b, c, and details.weighted_scores holds exactly the three
\* products 0.4*a, 0.3*b, 0.3*c.
C1_OverallIsWeightedSum ==
    PlainDone =>
        LET a == plain["extraction_accuracy"].score
            b == plain["structure_compliance"].score
            c == plain["content_quality"].score
            wa == RMul(Rat(4, 10), a)
            wb == RMul(Rat(3, 10), b)
            wc == RMul(Rat(3, 10), c)
        IN  /\ plain["overall"].score = RAdd(RAdd(wa, wb), wc)
            /\ plain["overall"].details.weighted_scores =
                   [extraction_accuracy |-> wa, structure_compliance |-> wb,
                    content_quality |-> wc]

\* an evaluation that ended with three different, non-zero metric scores
C1_Witness ==
    /\ PlainDone
    /\ plain["extraction_accuracy"].score = Rat(1, 2)
    /\ plain["content_quality"].score = One
    /\ plain["structure_compliance"].score \notin {Zero, Rat(1, 2), One}

\* C2: overall.passed is (overall.score >= threshold), whatever the metrics'
\* own passed flags and details.all_passed are.
C2_OverallPassedIsThreshold ==
    PlainDone =>
        plain["overall"].passed = RGe(plain["overall"].score, request.threshold)

\* an evaluation whose overall verdict disagrees with all_passed
C2_Witness ==
    /\ PlainDone
    /\ plain["overall"].passed
    /\ ~plain["overall"].details.all_passed

\* C3: with the same inputs, threshold and judge responses the tracing
\* evaluator's evaluate_all returns the same four results as the plain one.
C3_TracingReturnsSameResults ==
    (PlainDone /\ pc["traced"] = "done") =>
        \A k \in ResultKeys : results["traced"][k] = plain[k]

\* a judge response the evaluators cannot use: the call raised, the text is
\* not JSON, score or explanation is missing, or float() rejects the score
JudgeFailed(r) ==
    \/ r.kind \in {"raise", "badjson"}
    \/ r.score.k = "absent"
    \/ r.explanation.k = "absent"
    \/ r.score.k = "null"
    \/ r.score.k = "str" /\ ~IsDecimal(r.score.s)

\* the same, with every score that is not a JSON number counted as a failure
JudgeFailedOrNotANumber(r) == JudgeFailed(r) \/ r.score.k # "num"

ErrorNames == {"APIError", "JSONDecodeError", "KeyError", "TypeError", "ValueError"}

IsFailureResult(res) ==
    /\ res # NoResult
    /\ res.score = Zero
    /\ ~res.passed
    /\ res.confidence = Zero
    /\ res.explanation \in {Str("Evaluation failed: " \o e) : e \in ErrorNames}

Called(e, m) == \E i \in 1..Len(calls[e]) : calls[e][i] = m

\* C4 (as amended): when the judge call raises, the response is not JSON,
\* score or explanation is missing, or the score is one float() rejects
\* (null, text that spells no number), the metric evaluator returns score 0.0,
\* passed false, confidence 0.0 and an explanation naming the failure, and
\* raises nothing.
C4_JudgeFailureGivesConservativeResult ==
    \A m \in Metrics :
        (Called("plain", m) /\ JudgeFailed(judge[m])) =>
            /\ IsFailureResult(plain[m])
            /\ error["plain"] = ""

\* C4 (as claimed): the same for every non-numeric score, text that spells a
\* number included.
C4_NonNumericScoreFails ==
    \A m \in Metrics :
        (Called("plain", m) /\ JudgeFailedOrNotANumber(judge[m])) =>
            /\ IsFailureResult(plain[m])
            /\ error["plain"] = ""

\* all three evaluators have met a failing judge, each in a different way
C4_Witness ==
    /\ pc["plain"] = "aggregate"
    /\ judge["extraction_accuracy"].explanation.k = "absent"
    /\ judge["extraction_accuracy"].kind = "json"
    /\ judge["structure_compliance"] = JudgeRaises
    /\ judge["content_quality"].score = Str("high")

\* C5: for every request the runner can pass and every judge outcome,
\* evaluate_all returns the four results and never raises.
C5_EvaluateAllNeverRaises ==
    /\ pc["plain"] # "error"
    /\ PlainDone => Present(plain) = ResultKeys

\* C6: a judge failure on one metric fails only that metric: the others'
\* results are those of their own judge responses, and the overall result
\* is produced with the failed metric adding 0 to the weighted score and 0
\* to the confidence mean (still divided by 3).
C6_FailureIsConfinedToItsMetric ==
    PlainDone =>
        \A m \in Metrics :
            JudgeFailed(judge[m]) =>
                LET others == Metrics \ {m}
                IN  /\ IsFailureResult(plain[m])
                    /\ \A o \in others :
                           plain[o] = Evaluate(o, request.threshold, request, judge[o]).val
                    /\ plain["overall"] # NoResult
                    /\ plain["overall"].score =
                           SumOver(MetricOrder, others,
                                   [k \in others |-> RMul(weights[k], plain[k].score)])
                    /\ plain["overall"].confidence =
                           RDivInt(SumOver(MetricOrder, others,
                                           [k \in others |-> plain[k].confidence]), 3)

\* only the extraction judge failed; the other two metrics scored
C6_Witness ==
    /\ PlainDone
    /\ judge["extraction_accuracy"] = JudgeRaises
    /\ ~JudgeFailed(judge["structure_compliance"])
    /\ ~JudgeFailed(judge["content_quality"])
    /\ plain["structure_compliance"].score # Zero
    /\ plain["content_quality"].confidence # Zero

\* a response with a JSON-number score, an explanation text and a usable
\* (or no) confidence
WellFormed(r) ==
    /\ r.kind = "json"
    /\ r.score.k = "num"
    /\ r.explanation.k = "str"
    /\ r.confidence.k \in {"absent", "num"}

\* C7: on a well-formed judge response with score j, structure compliance
\* scores 0.7*j + 0.3*p, p being the Structural Validator's score of the same
\* items; details carry llm_score = j and programmatic_score = p; passed is
\* (score >= threshold).
C7_StructureScoreIsBlend ==
    LET r == judge["structure_compliance"]
        res == plain["structure_compliance"]
        p == validate_structure_programmatic(request.extracted_items)
    IN  (res # NoResult /\ WellFormed(r) /\ ~p.raised) =>
            LET j == ParseDecimal(r.score.s)
            IN  /\ res.score = RAdd(RMul(Rat(7, 10), j), RMul(Rat(3, 10), p.val))
                /\ res.details.llm_score = j
                /\ res.details.programmatic_score = p.val
                /\ res.passed = RGe(res.score, request.threshold)

\* structure compliance has blended a judge score with a non-zero
\* programmatic score
C7_Witness ==
    /\ plain["structure_compliance"] # NoResult
    /\ WellFormed(judge["structure_compliance"])
    /\ plain["structure_compliance"].details = 
           [programmatic_score |-> Rat(1, 4), llm_score |-> Rat(9, 10)]

\* C8: for every list of items the Structural Validator returns a score in
\* [0.0, 1.0] without raising; for an empty list and for null it returns 0.0.
C8_ValidatorScoreInRange ==
    vOut # NotRun =>
        /\ ~vOut.raised
        /\ RGe(vOut.val, Zero)
        /\ RGe(One, vOut.val)
        /\ (vItems.k = "null" \/ vItems.list = <<>>) => vOut.val = Zero

\* the validator has scored a list of MaxItems items above zero
C8_Witness ==
    /\ vOut # NotRun
    /\ vItems.k = "list"
    /\ Len(vItems.list) > 1
    /\ vOut.val # Zero

\* an item with non-empty item_name, registry category, and quantity and
\* notes each absent, null or text
FullyCompliant(item) ==
    /\ item.dict
    /\ item.item_name.k = "str" /\ item.item_name.s # ""
    /\ item.category.k = "str" /\ item.category.s \in valid_categories
    /\ item.quantity.k \in {"absent", "null", "str"}
    /\ item.notes.k \in {"absent", "null", "str"}

FullyCompliantList(items) ==
    /\ items.k = "list"
    /\ items.list # <<>>
    /\ \A i \in 1..Len(items.list) : FullyCompliant(items.list[i])

\* C9: for a non-empty list of fully compliant items the Structural Validator
\* returns at least 0.9.
C9_CompliantListScoresHigh ==
    (vOut # NotRun /\ FullyCompliantList(vItems)) =>
        ~vOut.raised /\ RGe(vOut.val, Rat(9, 10))

\* C10: for a fully compliant item list and a judge score of at least 0.9,
\* structure compliance scores at least 0.9 and passes at threshold 0.7.
C10_CompliantListPasses ==
    LET r == judge["structure_compliance"]
        res == plain["structure_compliance"]
    IN  (/\ res # NoResult
         /\ FullyCompliantList(request.extracted_items)
         /\ WellFormed(r)
         /\ RGe(ParseDecimal(r.score.s), Rat(9, 10))
         /\ request.threshold = Rat(7, 10)) =>
            RGe(res.score, Rat(9, 10)) /\ res.passed

\* the validator has scored a list of exactly one item mapping
ScoredOneItem == vOut # NotRun /\ vItems.k = "list" /\ Len(vItems.list) = 1

InRegistry(v) == v.k = "str" /\ v.s \in valid_categories

\* a > b
RGt(a, b) == a.n * b.d > b.n * a.d

\* C11: of two items that differ only in category, one holding a registry
\* label and the other a value that is not in the registry, the Structural
\* Validator scores the one with the registry label strictly higher.
C11_RegistryCategoryScoresHigher ==
    (ScoredOneItem /\ InRegistry(vItems.list[1].category)) =>
        \A c \in CategoryValues :
            ~InRegistry(c) =>
                LET other == [vItems.list[1] EXCEPT !.category = c]
                    low == validate_structure_programmatic(ListOf(<<other>>))
                IN  ~vOut.raised /\ ~low.raised /\ RGt(vOut.val, low.val)

\* a registry category is the only credit the item earns
C11_Witness ==
    /\ ScoredOneItem
    /\ vItems.list[1] = Item(Absent, Str("other"), Num("2"), Num("2"))
    /\ vOut.val = Rat(1, 10)

\* C12: each of the four results of one evaluate_all has
\* passed = (score >= threshold), for every threshold in [0,1] and every
\* judge outcome.
C12_PassedIsScoreAtLeastThreshold ==
    PlainDone =>
        \A k \in ResultKeys :
            plain[k].passed = RGe(plain[k].score, request.threshold)

InUnitInterval(x) == RGe(x, Zero) /\ RGe(One, x)

\* C13: every result the metric evaluators and evaluate_all return has score
\* and confidence in [0.0, 1.0], whatever numbers the judge reports.
C13_ScoreAndConfidenceInRange ==
    \A k \in Present(plain) :
        InUnitInterval(plain[k].score) /\ InUnitInterval(plain[k].confidence)

\* C15: the overall confidence is the sum of the three metric confidences
\* divided by 3 (the overall result itself is not counted), and
\* details.all_passed is the conjunction of the three metrics' passed flags.
C15_ConfidenceIsMeanOfThree ==
    PlainDone =>
        LET ea == plain["extraction_accuracy"]
            sc == plain["structure_compliance"]
            cq == plain["content_quality"]
        IN  /\ plain["overall"].confidence =
                   RDivInt(RAdd(RAdd(ea.confidence, sc.confidence), cq.confidence), 3)
            /\ plain["overall"].details.all_passed =
                   (ea.passed /\ sc.passed /\ cq.passed)

\* three different confidences, one reported by the judge and two defaults,
\* and all three metrics passed
C15_Witness ==
    /\ PlainDone
    /\ plain["extraction_accuracy"].confidence = Rat(1, 2)
    /\ plain["structure_compliance"].confidence = Rat(9, 10)
    /\ plain["content_quality"].confidence = Rat(8, 10)
    /\ plain["overall"].details.all_passed

NoMetricPassed == \A m \in Metrics : ~plain[m].passed

SinkCallFailed == spanType \in {"unavailable", "without_set_parent"}

\* C17: when a sink operation fails the tracing evaluator still returns the
\* wrapped evaluator's results and raises nothing.
C17_SinkFailureIsNoOp ==
    (PlainDone /\ SinkCallFailed) =>
        /\ pc["traced"] # "error"
        /\ \A m \in Metrics :
               results["traced"][m] # NoResult => results["traced"][m] = plain[m]

\* the validator has scored a non-empty list of item mappings
ScoredItems ==
    /\ vOut # NotRun
    /\ vItems.k = "list"
    /\ vItems.list # <<>>
    /\ \A i \in 1..Len(vItems.list) : vItems.list[i].dict

\* the rubric: 0.4 for the name, 0.4 for a registry category, 0.1 each for
\* quantity and notes absent, null or text.  The name earns its credit when
\* it is non-empty text (blankCounts) or text with a character that is not
\* white space (~blankCounts).
RubricCredit(item, blankCounts) ==
    LET nameOk == /\ item.item_name.k = "str"
                  /\ item.item_name.s # ""
                  /\ blankCounts \/ item.item_name.s \notin {" ", "  "}
        name == IF nameOk THEN Rat(4, 10) ELSE Zero
        cat == IF InRegistry(item.category) THEN Rat(4, 10) ELSE Zero
        qty == IF item.quantity.k \in {"absent", "null", "str"}
               THEN Rat(1, 10) ELSE Zero
        nts == IF item.notes.k \in {"absent", "null", "str"}
               THEN Rat(1, 10) ELSE Zero
    IN  RAdd(RAdd(name, cat), RAdd(qty, nts))

\* the checks evaluated for an item: name, quantity, notes, and category
\* when the item holds a category the code takes for one
RubricChecks(item) ==
    IF \/ item.category.k \in {"absent", "null"}
       \/ item.category = Str("")
       \/ item.category = Num("0")
    THEN 3 ELSE 4

RECURSIVE RubricSum(_, _)
RubricSum(seq, blankCounts) ==
    IF seq = <<>> THEN Zero
    ELSE RAdd(RDivInt(RubricCredit(Head(seq), blankCounts), RubricChecks(Head(seq))),
              RubricSum(Tail(seq), blankCounts))

RubricMean(seq, blankCounts) == RDivInt(RubricSum(seq, blankCounts), Len(seq))

\* C18 (as claimed): for a non-empty list the Structural Validator returns
\* the mean over items of credit / checks, the name's 0.4 going to every
\* non-empty text item_name.
C18_ScoreIsMeanOfRubric ==
    ScoredItems => ~vOut.raised /\ vOut.val = RubricMean(vItems.list, TRUE)

\* C18 (as amended): the same, the name's 0.4 going to an item_name that is
\* text with at least one character that is not white space.
C18_ScoreIsMeanOfRubricNonBlankName ==
    ScoredItems => ~vOut.raised /\ vOut.val = RubricMean(vItems.list, FALSE)

\* two items with different divisors: (0.4+0.1+0.1)/3 and (0.4+0.4+0.1+0.1)/4
C18_Witness ==
    /\ ScoredItems
    /\ vItems.list =
           << Item(Str("Buy milk"), Absent, Absent, Absent),
              Item(Str("Buy milk"), Str("groceries"), Str("2 gallons"), Str("2 gallons")) >>
    /\ vOut.val = Rat(9, 40)

\* the score of a single item whose checks were divided by `divisor`
ScoredWithDivisor(divisor) ==
    /\ ~vOut.raised
    /\ vOut.val = RDivInt(RubricCredit(vItems.list[1], FALSE), divisor)

\* C19 (as claimed): the category check is counted in an item's divisor
\* exactly when the item has a category key, whatever its value; the other
\* three checks are always counted.
C19_CategoryCountedWhenKeyPresent ==
    (ScoredOneItem /\ vItems.list[1].dict) =>
        ScoredWithDivisor(IF vItems.list[1].category.k # "absent" THEN 4 ELSE 3)

\* C19 (as amended): the category check is counted exactly when the item
\* has a category key whose value is truthy (not null, not empty text, not
\* zero); the other three checks are always counted.
C19_CategoryCountedWhenTruthy ==
    (ScoredOneItem /\ vItems.list[1].dict) =>
        LET c == vItems.list[1].category
            counted == /\ c.k \notin {"absent", "null"}
                       /\ c # Str("")
                       /\ c # Num("0")
        IN  ScoredWithDivisor(IF counted THEN 4 ELSE 3)

\* a null category: the credit 0.6 of the other fields was divided by 3
C19_Witness ==
    /\ ScoredOneItem
    /\ vItems.list[1] = Item(Str("Buy milk"), Null, Null, Absent)
    /\ vOut.val = Rat(1, 5)

\* the float harness has computed an overall score
Aggregated == fOut.done /\ fIn.op = "overall"

FloatMax(a, b) == IF DLe(a, b) THEN b ELSE a
FloatMin(a, b) == IF DLe(a, b) THEN a ELSE b

\* the largest and the smallest of the three metric scores, as floats
MaxScore ==
    FloatMax(FloatMax(DFloat(fIn.scores["extraction_accuracy"]),
                      DFloat(fIn.scores["structure_compliance"])),
             DFloat(fIn.scores["content_quality"]))
MinScore ==
    FloatMin(FloatMin(DFloat(fIn.scores["extraction_accuracy"]),
                      DFloat(fIn.scores["structure_compliance"])),
             DFloat(fIn.scores["content_quality"]))

\* 2^(1 - Precision): the distance from 1.0 to the next float
Epsilon == DCanon(<<1>>, 1 - Precision)

\* C14 (as claimed): for metric scores a, b, c in [0,1] the overall score
\* is at most max(a,b,c) and at least min(a,b,c).
C14_OverallBetweenMinAndMax ==
    Aggregated => DLe(fOut.val, MaxScore) /\ DLe(MinScore, fOut.val)

\* C14 (as amended): the overall score is at most max(a,b,c) + 2^-52 and at
\* least min(a,b,c) - 2^-52.
C14_OverallBetweenMinAndMaxRounded ==
    Aggregated =>
        /\ DLe(fOut.val, DExactAdd(MaxScore, Epsilon))
        /\ DLe(MinScore, DExactAdd(fOut.val, Epsilon))

\* three scores of 0.9 whose overall score is above 0.9
C14_Witness ==
    /\ Aggregated
    /\ \A m \in Metrics : fIn.scores[m] = Rat(9, 10)
    /\ ~DLe(fOut.val, DFloat(Rat(9, 10)))

\* the float harness has scored an item list
FloatScored == fOut.done /\ fIn.op = "validate"

\* the items obtained from `item` by making one rubric check it failed pass
Improvements(item) ==
    LET nameOk == item.item_name.k = "str" /\ item.item_name.s \notin {"", " ", "  "}
        texts == {Null, Str("2 gallons")}
    IN  (IF nameOk THEN {} ELSE {[item EXCEPT !.item_name = Str("Buy milk")]})
        \cup (IF InRegistry(item.category) THEN {}
              ELSE {[item EXCEPT !.category = Str("groceries")]})
        \cup (IF item.quantity.k # "num" THEN {}
              ELSE {[item EXCEPT !.quantity = v] : v \in texts})
        \cup (IF item.notes.k # "num" THEN {}
              ELSE {[item EXCEPT !.notes = v] : v \in texts})

\* no single improvement of one item lowers the score of the list
Monotonic ==
    \A i \in 1..Len(fIn.items) :
        \A better \in Improvements(fIn.items[i]) :
            DLe(fOut.val,
                validate_structure_programmatic_float([fIn.items EXCEPT ![i] = better]))

Orders(n) ==
    {p \in [1..n -> 1..n] : \A i, j \in 1..n : p[i] = p[j] => i = j}

Permuted(seq, p) == [i \in 1..Len(seq) |-> seq[p[i]]]

\* n * 2^-Precision
RoundingOf(n) == DCanon(NatLimbs(n), -Precision)

\* C20 (as claimed): making a failed rubric check of one item pass never
\* lowers the list's score, and permuting the items never changes it.
C20_MonotonicAndOrderIndependent ==
    FloatScored =>
        /\ Monotonic
        /\ \A p \in Orders(Len(fIn.items)) :
               validate_structure_programmatic_float(Permuted(fIn.items, p)) = fOut.val

\* C20 (as amended): making a failed rubric check of one item pass never
\* lowers the list's score; permuting the items of a list of n items
\* changes it by at most n * 2^-53, and not at all when n <= 2.
C20_MonotonicAndOrderIndependentRounded ==
    FloatScored =>
        /\ Monotonic
        /\ \A p \in Orders(Len(fIn.items)) :
               LET other == validate_structure_programmatic_float(Permuted(fIn.items, p))
                   slack == RoundingOf(Len(fIn.items))
               IN  /\ DLe(other, DExactAdd(fOut.val, slack))
                   /\ DLe(fOut.val, DExactAdd(other, slack))
                   /\ Len(fIn.items) <= 2 => other = fOut.val

\* a list of three items with a failed check to improve, and an order of
\* its items that gives another score
C20_Witness ==
    /\ FloatScored
    /\ Len(fIn.items) = MaxFloatItems
    /\ \E i \in 1..Len(fIn.items) : Improvements(fIn.items[i]) # {}
    /\ \E p \in Orders(Len(fIn.items)) :
           validate_structure_programmatic_float(Permuted(fIn.items, p)) # fOut.val

\* evaluate_all has returned its results or raised
PlainFinished == pc["plain"] \in {"done", "error"}

\* C21: every call of evaluate_all issues exactly three judge calls, one per
\* metric, in the order extraction accuracy, structure compliance, content
\* quality; a failed judge call is not retried and does not cause a later
\* metric's judge call to be skipped.
C21_ThreeJudgeCallsInOrder ==
    PlainFinished => calls["plain"] = MetricOrder

\* the tracing evaluator's operation has returned or raised
TracedFinished == pc["traced"] \in {"done", "error"}

\* C22: in ListifyEvaluatorWithTracing every span is opened before the
\* wrapped evaluator is invoked and closed after it on all exit paths, also
\* when the evaluator or the result recording raises: once the evaluate
\* operation that opened a span has returned or raised, the span is closed.
C22_NoSpanLeftOpen ==
    TracedFinished =>
        \A n \in SpanNames : spans[n].started > 0 => spans[n].ended > 0

\* the number a JSON number of the judge-only evaluators spells
DecimalValue(t) ==
    CASE t \in {"0", "0.0"} -> Rat(0, 1)
      [] t \in {"1", "1.0"} -> Rat(1, 1)
      [] t \in {"3", "3.0"} -> Rat(3, 1)
      [] t = "4.5" -> Rat(9, 2)
      [] t = "5" -> Rat(5, 1)
      [] t = "7" -> Rat(7, 1)

\* a score on the 1-5 scale
OnScale(v) ==
    /\ v.k = "num"
    /\ RGe(DecimalValue(v.s), Rat(1, 1))
    /\ RGe(Rat(5, 1), DecimalValue(v.s))

AuxReturned == aOut # NotRun /\ ~aOut.raised

\* the judge gave no usable response to a rating prompt
RatingFailed(r) ==
    \/ r.kind # "json"
    \/ r.score.k = "absent"
    \/ r.confidence.k = "absent"
    \/ r.explanation.k = "absent"

\* the judge gave no usable response to the hallucination prompt
HallucinationCheckFailed(r) ==
    \/ r.kind # "json"
    \/ r.has_hallucinations.k = "absent"
    \/ r.confidence.k = "absent"
    \/ r.explanation.k = "absent"

\* C23 (as claimed): every result of evaluate_tone, evaluate_correctness,
\* evaluate_tool_calling and detect_hallucinations carries a score in [1, 5],
\* for every judge outcome, the fallback on judge failure included.
C23_ScoreOnOneToFiveScale ==
    AuxReturned => OnScale(aOut.val.score)

\* C23 (as amended): evaluate_tone, evaluate_correctness and
\* evaluate_tool_calling return the judge's score field unchanged, in [1, 5]
\* exactly when the judge's score is, and 3.0 on judge failure;
\* detect_hallucinations scores on a 0/1 scale: 0.0 when the judge reports
\* hallucinations or fails, 1.0 otherwise.
C23_ScoreOnScaleOfItsEvaluator ==
    AuxReturned =>
        LET r == aIn.resp
            score == aOut.val.score
        IN  IF aIn.op \in RatingOps
            THEN /\ RatingFailed(r) => score = Num("3.0") /\ OnScale(score)
                 /\ ~RatingFailed(r) =>
                        score = r.score /\ (OnScale(score) <=> OnScale(r.score))
            ELSE /\ score \in {Num("0.0"), Num("1.0")}
                 /\ score = Num("0.0") <=>
                        \/ HallucinationCheckFailed(r)
                        \/ TruthyJson(r.has_hallucinations)

\* each kind of evaluator has returned its fallback's scale: a rating has
\* fallen back to 3.0, or the hallucination check to 0.0
C23_Witness ==
    /\ AuxReturned
    /\ aIn.resp = AuxRaises
    /\ \/ aIn.op = "evaluate_tool_calling" /\ aOut.val.score = Num("3.0")
       \/ aIn.op = "detect_hallucinations" /\ aOut.val.score = Num("0.0")

\* a judge response that is well-formed except that it carries no confidence
WellFormedWithoutConfidence(r) ==
    /\ r.kind = "json"
    /\ r.score.k = "num"
    /\ r.explanation.k = "str"
    /\ r.relevance_score.k \in {"absent", "num"}
    /\ r.confidence.k = "absent"

DefaultConfidence(m) ==
    IF m = "structure_compliance" THEN Rat(9, 10) ELSE Rat(8, 10)

\* C24: when a judge response is well-formed but omits confidence, the metric
\* is not failed: the result keeps the judge's score (blended with the
\* validator's for structure compliance) and the pass/fail derived from it,
\* and its confidence is 0.8 for extraction accuracy and content quality and
\* 0.9 for structure compliance.
C24_MissingConfidenceIsDefaulted ==
    \A m \in Metrics :
        LET r == judge[m]
            res == plain[m]
            p == validate_structure_programmatic(request.extracted_items)
        IN  (/\ res # NoResult
             /\ WellFormedWithoutConfidence(r)
             /\ m = "structure_compliance" => ~p.raised) =>
                LET j == ParseDecimal(r.score.s)
                IN  /\ ~IsFailureResult(res)
                    /\ res.confidence = DefaultConfidence(m)
                    /\ res.explanation = r.explanation
                    /\ res.passed = RGe(res.score, request.threshold)
                    /\ IF m = "structure_compliance"
                       THEN /\ res.details.llm_score = j
                            /\ res.score = RAdd(RMul(JudgeWeight, j),
                                                RMul(ProgrammaticWeight, p.val))
                       ELSE res.score = j

\* the judge has answered all three metrics without a confidence and none
\* of them was failed
C24_Witness ==
    /\ PlainDone
    /\ \A m \in Metrics :
           /\ WellFormedWithoutConfidence(judge[m])
           /\ plain[m].confidence = DefaultConfidence(m)
    /\ plain["overall"].confidence = Rat(5, 6)

\* C25: no evaluate operation (a metric or evaluate_all, of the plain or of
\* the tracing evaluator) changes the item list it was given, the engine's
\* threshold, its judge model identifier or the category registry: after any
\* sequence of evaluations these are as they were at construction.
C25_EvaluationsChangeNoInput ==
    [][/\ request' = request
       /\ evaluator' = evaluator
       /\ \A e \in Engines :
              evaluator'[e] = ListifyEvaluator("gpt-4o", request.threshold)]_vars

\* both evaluators have run evaluate_all to its end on a non-empty item list
C25_Witness ==
    /\ PlainDone
    /\ pc["traced"] = "done"
    /\ request.extracted_items.k = "list"
    /\ request.extracted_items.list # <<>>

\* C26: evaluations on independent engine instances need no coordination:
\* when the evaluate_all calls of two ListifyEvaluator instances with
\* different thresholds interleave at judge-call granularity in any order,
\* each call returns exactly the results it would return if run alone with
\* the same judge responses.
C26_InterleavedEqualsAlone ==
    \A i \in Instances :
        inst[i].pc = "done" =>
            Returned(inst[i].results) =
                evaluate_all(InstanceThreshold[i], PairRequest(i), inst[i].judge)

\* the two instances alternated their judge calls, got the same answers, and
\* reached different verdicts, each by its own threshold
C26_Witness ==
    /\ \A i \in Instances : inst[i].pc = "done"
    /\ instCalls = <<"a", "b", "a", "b", "a", "b">>
    /\ inst["a"].judge = inst["b"].judge
    /\ ~inst["a"].results["overall"].passed
    /\ inst["b"].results["overall"].passed

\* the credit an item earns from its fields other than category
OtherCredit(item) ==
    RAdd(NameCredit(item),
         RAdd(OptionalCredit(item.quantity), OptionalCredit(item.notes)))

\* category values the validator does not count: no key, null, empty text
UncountedCategories == {Absent, Null, Str("")}

\* C27: in the Structural Validator an item whose category is absent (or
\* present but empty or null) scores strictly higher than the otherwise
\* identical item whose category is a non-empty value outside the registry,
\* whenever the item earns any credit from its other fields: the other
\* fields' credit is divided by 3 instead of 4.
C27_MissingCategoryBeatsInvalid ==
    ScoredOneItem =>
        LET item == vItems.list[1]
        IN  (/\ item.dict
             /\ CategoryCounted(item)
             /\ ~InRegistry(item.category)
             /\ RGt(OtherCredit(item), Zero)) =>
                \A c \in UncountedCategories :
                    LET twin == [item EXCEPT !.category = c]
                        out == validate_structure_programmatic(ListOf(<<twin>>))
                    IN  /\ ~vOut.raised
                        /\ ~out.raised
                        /\ RGt(out.val, vOut.val)
                        /\ vOut.val = RDivInt(OtherCredit(item), 4)
                        /\ out.val = RDivInt(OtherCredit(item), 3)

\* the validator has scored a named item with an invalid category at 0.15,
\* where the same item without category scores 0.2
C27_Witness ==
    /\ ScoredOneItem
    /\ vItems.list[1] = InvalidCategoryItem
    /\ vOut.val = Rat(3, 20)
    /\ validate_structure_programmatic(
           ListOf(<<[InvalidCategoryItem EXCEPT !.category = Absent]>>)).val = Rat(1, 5)

\* C28: in every ListifyEvaluatorWithTracing evaluate operation each span
\* that is opened receives exactly one end() call (and nothing is set on a
\* span after it has been ended).
C28_SpanEndedExactlyOnce ==
    /\ \A n \in SpanNames : spans[n].ended <= 1
    /\ TracedFinished =>
           \A n \in SpanNames : spans[n].started = 1 => spans[n].ended = 1

\* a judge response whose score, if it can be used at all, is within [0, 1]
UnitJudgeScore(r) ==
    JudgeFailed(r) \/ InUnitInterval(PyFloat(r.score).val)

\* judge answers to the three metrics of which the one to metric m is a
\* failure and the others are usable with scores within [0, 1]
OnlyFails(m) ==
    {a \in [Metrics -> {r \in JudgeResponses : UnitJudgeScore(r)}] :
        /\ a[m] = JudgeRaises
        /\ \A o \in Metrics \ {m} : ~JudgeFailed(a[o])}

\* some evaluation at threshold 0.7 in which only metric m fails has
\* overall.passed true
CanPassThoughFailed(m) ==
    \E items \in {ListOf(<<i>>) : i \in AllItems} \cup EngineLists :
        \E a \in OnlyFails(m) :
            LET out == evaluate_all(Rat(7, 10),
                                    Request(Str("Buy milk, eggs"), Str("text"),
                                            items, Null, Rat(7, 10)), a)
            IN  ~out.raised /\ out.val["overall"].passed

\* evaluate_all ran at threshold 0.7 and the judge's answers were of that kind
OnlyFailed(m) == request.threshold = Rat(7, 10) /\ judge \in OnlyFails(m)

StructureFailureCanPass == CanPassThoughFailed("structure_compliance")
ContentFailureCanPass == CanPassThoughFailed("content_quality")

\* C29: with judge scores in [0, 1], if extraction accuracy returns the
\* failure result then the overall score is at most 0.6 and overall.passed
\* is false for every threshold above 0.6, the default 0.7 included; a
\* failure of only the structure or only the content metric does not by
\* itself force overall.passed to false at threshold 0.7.
C29_OnlyExtractionFailureForcesFail ==
    /\ (/\ PlainDone
        /\ \A m \in Metrics : UnitJudgeScore(judge[m])
        /\ IsFailureResult(plain["extraction_accuracy"])) =>
           /\ RGe(Rat(6, 10), plain["overall"].score)
           /\ RGt(request.threshold, Rat(6, 10)) => ~plain["overall"].passed
    /\ (PlainDone /\ OnlyFailed("structure_compliance")) => StructureFailureCanPass
    /\ (PlainDone /\ OnlyFailed("content_quality")) => ContentFailureCanPass

\* the number of suites recorded with a status
Recorded(status) ==
    Cardinality({i \in 1..Len(runner.tests) : runner.tests[i].status = status})

\* C30: run_all_tests returns 1 exactly when at least one suite was recorded
\* failed, 0 exactly when none was recorded failed and at least one passed,
\* and 2 otherwise; a suite recorded as timeout or error adds to
\* summary.total_tests but to none of the passed, failed and skipped
\* counters, and so never turns the exit code into 1.
C30_ExitCodeFollowsRecordedStatuses ==
    /\ runner.summary.total_tests = Len(runner.tests)
    /\ runner.summary.passed = Recorded("passed")
    /\ runner.summary.failed = Recorded("failed")
    /\ runner.summary.skipped = Recorded("skipped")
    /\ runner.summary.total_tests =
           runner.summary.passed + runner.summary.failed + runner.summary.skipped
           + Recorded("timeout") + Recorded("error")
    /\ runner.pc = "returned" =>
           /\ runner.exit_code \in {0, 1, 2}
           /\ runner.exit_code = 1 <=> Recorded("failed") > 0
           /\ runner.exit_code = 0 <=>
                  Recorded("failed") = 0 /\ Recorded("passed") > 0
           /\ runner.exit_code = 2 <=>
                  Recorded("failed") = 0 /\ Recorded("passed") = 0

\* a run in which one suite timed out, one was skipped and one could not be
\* started has returned 2 with three tests counted and none passed or failed
C30_Witness ==
    /\ runner.pc = "returned"
    /\ [i \in 1..Len(runner.tests) |-> runner.tests[i].status]
           = <<"timeout", "skipped", "error">>
    /\ runner.exit_code = 2
    /\ runner.summary.total_tests = 3
    /\ runner.summary.failed = 0
    /\ runner.summary.skipped = 1

====
